---- MODULE Spec2Model ----
(***************************************************************************)
(* A model of the JobGenie job-search core: the credit gate of the         *)
(* dashboard (handleSearch / deductCredits), the intent analyzer, the      *)
(* shared JSON-repair parser, the structuring engine, the freshness        *)
(* classifier and the search fan-out of searchWithRefinements.             *)
(*                                                                         *)
(* Texts are sequences of tokens.  A provider response is a sequence of    *)
(* JSON tokens (braces, brackets, commas, "key:" tokens, atomic value      *)
(* literals, code fences, prose); a job text is a sequence of words and    *)
(* numbers.  Every regular expression of the source is modelled by the     *)
(* token pattern it matches on such a text.                                *)
(***************************************************************************)
EXTENDS Integers, Sequences, FiniteSets, TLC

VARIABLES
    arg,    \* the arguments of the function call under study
    ret,    \* what that call returned
    phase,  \* "call" before the call, "done" after it (searchWithRefinements:
            \* "loop", "results", "final", "done")
    \* searchWithRefinements
    searchIdx,        \* index in searches of the query being issued
    searchResults,    \* results of the current query still to be looked at
    processedUrls,    \* the Set processedUrls
    allJobs,          \* the array allJobs
    failedSearches,   \* indexes of the queries whose request threw
    fetched,          \* URLs handed to fetchJobPageContent, in order
    resolved,         \* per link: how often it was handed to processJobResult
    lastEnv,          \* the result last resolved and what the services answered
    \* the credit ledger (Firestore) and the dashboards open on it
    credits,          \* users/{uid}.credits
    credits0,         \* the balance before any call
    usage,            \* number of documents in the usage collection
    granted,          \* number of deductCredits calls that returned true
    pc,               \* per dashboard: where its handler stands
    profile,          \* per dashboard: credits of the cached profile
    atStart,          \* per dashboard: the ledger's balance when handleSearch began
    deducted,         \* per dashboard: what deductCredits returned
    log,              \* per dashboard: external calls of the current invocation
    toast,            \* per dashboard: the message shown by the current invocation
    purchases         \* number of 'completed' purchase documents of the checkout session

fnVars == <<arg, ret, phase>>
runVars == <<searchIdx, searchResults, processedUrls, allJobs, failedSearches, fetched,
             resolved, lastEnv>>
credVars == <<credits, credits0, usage, granted, pc, profile, atStart, deducted, log,
              toast, purchases>>
vars == <<fnVars, runVars, credVars>>

\* No search run is under way.
RunIdle ==
    /\ searchIdx = 0 /\ searchResults = << >> /\ processedUrls = {} /\ allJobs = << >>
    /\ failedSearches = {} /\ fetched = << >> /\ resolved = << >>
    /\ lastEnv = [kind |-> "none"]

\* No dashboard is open.
CredIdle ==
    /\ credits = 0 /\ credits0 = 0 /\ usage = 0 /\ granted = 0
    /\ pc = << >> /\ profile = << >> /\ atStart = << >> /\ deducted = << >>
    /\ log = << >> /\ toast = << >> /\ purchases = 0

\* One more call counted for link.
Handed(calls, link) ==
    IF link \in DOMAIN calls THEN [calls EXCEPT ![link] = @ + 1]
    ELSE calls @@ (link :> 1)

SeqsUpTo(S, n) == UNION {[1..k -> S] : k \in 0..n}

NoValue == [kind |-> "none"]
Thrown == [kind |-> "throw"]

(***************************************************************************)
(* JSON texts, as returned by the generative provider.                     *)
(***************************************************************************)

\* "key:" tokens: an object key followed by its colon.
KeyToks == {"refinements:", "missingInfo:", "title:", "company:", "location:",
            "description:", "salary:", "employmentType:", "workplaceType:",
            "requirements:", "responsibilities:", "str:"}

\* Atomic literals that are whole JSON objects (they carry their own braces).
\* R_full: refinements with jobTitles and location.city; R_notitle: jobTitles
\* empty; R_nocity: no location.city; R_bare: neither.
ObjLits == {"R_full", "R_notitle", "R_nocity", "R_bare"}

\* Atomic literals that are whole JSON arrays.
ArrLits == {"list0", "list1"}

\* Scalar literals.  "sqstr" is a single-quoted string and "undefined" the bare
\* word undefined: both are invalid JSON unless a repair rewrites them.
\* Scalar literals: strings (StringOf gives their text; "estr" is the empty
\* string, "s_desc" a long description), a number and null.
ScalarLits == {"str", "estr", "num", "null",
               "s_title", "s_company", "s_austin", "s_salary", "s_remote", "s_desc"}
RepairLits == {"sqstr", "undefined"}

JsonToks == {"fence", "prose", "{", "}", "[", "]", ","}
              \cup KeyToks \cup ObjLits \cup ArrLits \cup ScalarLits \cup RepairLits

SubSeqFrom(s, i) == SubSeq(s, i, Len(s))

\* The value JSON.parse yields for an atomic literal ("sqstr" has been turned
\* into a double-quoted string and "undefined" into null by the repairs).
LitValue(t) == CASE t = "sqstr" -> "str"
                 [] t = "undefined" -> "null"
                 [] OTHER -> t

RECURSIVE IsJsonValue(_), IsJsonMembers(_), IsJsonElements(_)

\* A pair "key: value"; after a colon the repairs make 'x' and undefined valid.
IsJsonPair(p) ==
    /\ Len(p) >= 2
    /\ p[1] \in KeyToks
    /\ \/ (Len(p) = 2 /\ p[2] \in RepairLits)
       \/ IsJsonValue(SubSeqFrom(p, 2))

IsJsonMembers(m) ==
    \/ IsJsonPair(m)
    \/ \E k \in 2..(Len(m) - 1) :
          /\ m[k] = ","
          /\ IsJsonPair(SubSeq(m, 1, k - 1))
          /\ IsJsonMembers(SubSeqFrom(m, k + 1))

IsJsonElements(e) ==
    \/ IsJsonValue(e)
    \/ \E k \in 2..(Len(e) - 1) :
          /\ e[k] = ","
          /\ IsJsonValue(SubSeq(e, 1, k - 1))
          /\ IsJsonElements(SubSeqFrom(e, k + 1))

IsJsonValue(s) ==
    \/ (Len(s) = 1 /\ s[1] \in ObjLits \cup ArrLits \cup ScalarLits)
    \/ /\ Len(s) >= 2 /\ s[1] = "{" /\ s[Len(s)] = "}"
       /\ (Len(s) = 2 \/ IsJsonMembers(SubSeq(s, 2, Len(s) - 1)))
    \/ /\ Len(s) >= 2 /\ s[1] = "[" /\ s[Len(s)] = "]"
       /\ (Len(s) = 2 \/ IsJsonElements(SubSeq(s, 2, Len(s) - 1)))

\* The value of a pair's right-hand side as the caller sees it: an atomic
\* literal, or "obj" / "arr" for a nested composite.
PairValue(p) == IF Len(p) = 2 THEN LitValue(p[2])
                ELSE IF p[2] = "{" THEN "obj" ELSE "arr"

RECURSIVE JsonFields(_)
\* The top-level fields of a valid member list: key token -> value; a repeated
\* key keeps its last value, as JSON.parse does.
JsonFields(m) ==
    IF IsJsonPair(m) THEN (m[1] :> PairValue(m))
    ELSE LET k == CHOOSE k \in 2..(Len(m) - 1) :
                      /\ m[k] = ","
                      /\ IsJsonPair(SubSeq(m, 1, k - 1))
                      /\ IsJsonMembers(SubSeqFrom(m, k + 1))
             first == SubSeq(m, 1, k - 1)
             rest == JsonFields(SubSeqFrom(m, k + 1))
         IN  IF first[1] \in DOMAIN rest THEN rest
             ELSE (first[1] :> PairValue(first)) @@ rest

\* The fields an atomic object literal decodes to.
LitFields(t) == ("jobTitles:" :> (IF t \in {"R_full", "R_nocity"} THEN "list1" ELSE "list0"))
                @@ (IF t \in {"R_full", "R_notitle"} THEN ("city:" :> "str")
                    ELSE << >>)

Null == [kind |-> "null"]
JsonObject(f) == [kind |-> "object", fields |-> f]
JsonOther(k) == [kind |-> k]

\* JSON.parse on a token sequence that IsJsonValue accepts.
JsonParse(s) ==
    IF Len(s) = 1
    THEN IF s[1] \in ObjLits THEN JsonObject(LitFields(s[1]))
         ELSE IF s[1] \in ArrLits THEN JsonOther("array")
         ELSE JsonOther(s[1])
    ELSE IF s[1] = "["
    THEN JsonOther("array")
    ELSE IF Len(s) = 2 THEN JsonObject(<< >>)
    ELSE JsonObject(JsonFields(SubSeq(s, 2, Len(s) - 1)))

(***************************************************************************)
(* safeJsonParse: the shared JSON-repair parser.                           *)
(***************************************************************************)

\* The structure safeJsonParse returns instead of null when the text mentions
\* refinements: default refinements and a canned missingInfo list.
DefaultRefinementResponse(missing) ==
    JsonObject(("refinements:" :> "R_default") @@ ("missingInfo:" :> missing)
               @@ ("suggestions:" :> "list2"))

\* .replace(/```(?:json)?\s*/gi, '') and the whitespace clean-up.
StripFences(text) == SelectSeq(text, LAMBDA t : t # "fence")

BraceOpeners == {"{"} \cup ObjLits
BraceClosers == {"}"} \cup ObjLits
BracketOpeners == {"["} \cup ArrLits \cup ObjLits
BracketClosers == {"]"} \cup ArrLits \cup ObjLits

Min(S) == CHOOSE x \in S : \A y \in S : x <= y
Max(S) == CHOOSE x \in S : \A y \in S : x >= y

\* A greedy match open.*close: from the first opener to the last closer after
\* it; << >> when there is none.  An atomic literal (an opener that is also a
\* closer) matches by itself.
GreedySpan(c, openers, closers) ==
    LET O == {i \in 1..Len(c) : c[i] \in openers}
        C == {i \in 1..Len(c) : c[i] \in closers}
    IN  IF O = {} \/ C = {} THEN << >>
        ELSE LET i0 == Min(O)
                 j0 == Max(C)
             IN  IF j0 > i0 \/ (j0 = i0 /\ c[i0] \in closers)
                 THEN SubSeq(c, i0, j0) ELSE << >>

\* cleaned.match(/\{.*\}/) || cleaned.match(/\[.*\]/)
JsonMatch(cleaned) ==
    LET obj == GreedySpan(cleaned, BraceOpeners, BraceClosers)
    IN  IF obj # << >> THEN obj
        ELSE GreedySpan(cleaned, BracketOpeners, BracketClosers)

\* .replace(/,\s*([}\]])/g, '$1'): a comma right before a closer is dropped.
\* (Quoting bare keys, 'x' -> "x" and undefined -> null act inside the tokens.)
KeepToken(s, i) == ~(s[i] = "," /\ i < Len(s) /\ s[i + 1] \in {"}", "]"})

RECURSIVE FilterIdx(_, _)
FilterIdx(s, i) ==
    IF i > Len(s) THEN << >>
    ELSE (IF KeepToken(s, i) THEN <<s[i]>> ELSE << >>) \o FilterIdx(s, i + 1)

RepairJson(jsonStr) == FilterIdx(jsonStr, 1)

Mentions(text, word) == \E i \in 1..Len(text) : text[i] = word

MutSafeJsonParseNoDecodeCheck(text) ==
    IF text = << >> THEN Null
    ELSE LET jsonMatch == JsonMatch(StripFences(text))
         IN  IF jsonMatch = << >>
             THEN IF Mentions(text, "refinements:")
                  THEN DefaultRefinementResponse("list2") ELSE Null
             ELSE IF IsJsonValue(RepairJson(jsonMatch))
                  THEN JsonParse(RepairJson(jsonMatch))
                  ELSE JsonObject(<< >>)

safeJsonParse(text) ==
    IF text = << >> THEN Null
    ELSE LET jsonMatch == JsonMatch(StripFences(text))
         IN  IF jsonMatch = << >>
             THEN IF Mentions(text, "refinements:")
                  THEN DefaultRefinementResponse("list2") ELSE Null
             ELSE IF IsJsonValue(RepairJson(jsonMatch))
                  THEN JsonParse(RepairJson(jsonMatch))
                  ELSE IF Mentions(text, "refinements:") \/ Mentions(text, "missingInfo:")
                       THEN DefaultRefinementResponse("list3") ELSE Null

\* Whether the text decodes: a span is found and JSON.parse accepts its repair.
DecodeSucceeds(text) ==
    /\ text # << >>
    /\ JsonMatch(StripFences(text)) # << >>
    /\ IsJsonValue(RepairJson(JsonMatch(StripFences(text))))

(***************************************************************************)
(* SpecParse: safeJsonParse applied to every short text.                   *)
(***************************************************************************)
MaxTextLen == 4

ParseAlphabet == {"fence", "prose", "{", "}", "[", "]", ",",
                  "refinements:", "missingInfo:", "str", "R_full"}

InitParse ==
    /\ arg \in [text : SeqsUpTo(ParseAlphabet, MaxTextLen)]
    /\ ret = NoValue
    /\ phase = "call"
    /\ RunIdle /\ CredIdle

CallSafeJsonParse ==
    /\ phase = "call"
    /\ ret' = safeJsonParse(arg.text)
    /\ phase' = "done"
    /\ UNCHANGED <<arg, runVars, credVars>>

NextParse == CallSafeJsonParse

SpecParse == InitParse /\ [][NextParse]_vars

\* C7 (as stated): safeJsonParse yields null on any failure and returns a
\* non-null value only when the decode succeeded.
C7_NullOnAnyFailure ==
    phase = "done" => (ret # Null => DecodeSucceeds(arg.text))

\* C7 (amended): safeJsonParse never throws; when the decode succeeds it returns
\* the decoded value; on failure it returns null, except that a text naming
\* refinements (no span found) or refinements / missingInfo (decode error)
\* gets the default refinements structure instead of null.
C7_NullOrDefaultOnFailure ==
    phase = "done" =>
        /\ ret # Thrown
        /\ DecodeSucceeds(arg.text) =>
              ret = JsonParse(RepairJson(JsonMatch(StripFences(arg.text)))) /\ ret # Null
        /\ ~DecodeSucceeds(arg.text) =>
              LET noSpan == arg.text = << >> \/ JsonMatch(StripFences(arg.text)) = << >>
                  special == /\ arg.text # << >>
                             /\ \/ Mentions(arg.text, "refinements:")
                                \/ (~noSpan /\ Mentions(arg.text, "missingInfo:"))
              IN  /\ special => ret.kind = "object" /\ ret.fields["refinements:"] = "R_default"
                  /\ ~special => ret = Null

\* A decode error on a text that names neither word: null is returned.
C7_Witness ==
    /\ phase = "done"
    /\ JsonMatch(StripFences(arg.text)) # << >>
    /\ ~DecodeSucceeds(arg.text)
    /\ ret = Null

(***************************************************************************)
(* analyzeSearchIntent: the intent analyzer.                               *)
(***************************************************************************)

\* Words of a search prompt.  "remote" and the capitalised "Austin" match the
\* location pattern, "100k" the salary pattern, "developer" neither.
InputWords == {"developer", "remote", "Austin", "100k"}

\* /\b(remote|hybrid|onsite|[A-Z][a-z]+(?:\s+[A-Z][a-z]+)*)\b/.test(input)
hasLocation(input) == \E i \in 1..Len(input) : input[i] \in {"remote", "Austin"}
\* input.split(' ').length > 1
hasJobTitle(input) == Len(input) > 1
\* /\$|\d+k/i.test(input)
hasSalary(input) == \E i \in 1..Len(input) : input[i] = "100k"

\* The local missingInfo list, as the number of its entries.
LocalMissingInfo(input) ==
    (IF hasJobTitle(input) THEN 0 ELSE 1) + (IF hasLocation(input) THEN 0 ELSE 1)
    + (IF hasSalary(input) THEN 0 ELSE 1)

\* A missingInfo value: a list of len entries, or something that is no list.
MissingList(n) == [tag |-> "list", len |-> n]
MissingOther(t) == [tag |-> t, len |-> 0]

\* A JavaScript value of the decoded JSON, by its literal.
IsTruthy(v) == v \notin {"null", "estr", "absent"}
IsArrayValue(v) == v \in {"list0", "list1", "list2", "list3", "arr"}
ArrayLen(v) == CASE v = "list0" -> 0 [] v = "list1" -> 1 [] v = "list2" -> 2
                 [] v = "list3" -> 3 [] OTHER -> 1
AsMissing(v) == IF IsArrayValue(v) THEN MissingList(ArrayLen(v)) ELSE MissingOther(v)

Field(obj, k) == IF k \in DOMAIN obj.fields THEN obj.fields[k] ELSE "absent"

\* refinements.jobTitles?.length and refinements.location?.city of a value.
HasJobTitles(r) == r \in {"R_full", "R_nocity"}
HasCity(r) == r \in {"R_full", "R_notitle"}
\* location.remote and seniority of a refinements value.
RefRemote(r) == r = "R_default"
RefSeniority(r) == IF r \in {"R_default", "R_empty"} THEN "mid"
                   ELSE IF r \in ObjLits THEN "senior" ELSE "none"
IsRefinementsObject(r) == r \in ObjLits \cup {"R_default", "R_empty", "obj"}

Analysis(r, m, calls) ==
    [kind |-> "value", refinements |-> r, missingInfo |-> m, providerCalls |-> calls]

\* The result of the catch block (part_002:174-196).
AnalysisCatch(calls) == Analysis("R_default", MissingList(3), calls)
\* The fallback after the if (part_002:154-172).
AnalysisFallback(calls) == Analysis("R_default", MissingList(2), calls)

\* parsed.missingInfo = parsed.missingInfo || []; parsed.missingInfo.push(x):
\* the new missingInfo, or "throw" when the value has no push.
PushMissing(v) ==
    IF ~IsTruthy(v) THEN MissingList(1)
    ELSE IF IsArrayValue(v) THEN MissingList(ArrayLen(v) + 1)
    ELSE MissingOther("throw")

PushAgain(m) == IF m.tag = "list" THEN MissingList(m.len + 1) ELSE m

\* part_002:142-152 on a decoded object with a truthy refinements field.
AnalysisFromParsed(parsed, calls) ==
    LET r == Field(parsed, "refinements:")
        m0 == Field(parsed, "missingInfo:")
        m1 == IF ~HasJobTitles(r) THEN PushMissing(m0) ELSE AsMissing(m0)
        m2 == IF HasCity(r) THEN m1
              ELSE IF ~HasJobTitles(r) THEN PushAgain(m1)
              ELSE PushMissing(m0)
    IN  IF m1.tag = "throw" \/ m2.tag = "throw" THEN AnalysisCatch(calls)
        ELSE Analysis(r, m2, calls)

MutAnalyzeSearchIntentAlwaysProvider(input, isResume, provider) ==
    IF provider.kind = "throw" THEN AnalysisCatch(1)
    ELSE LET parsed == safeJsonParse(provider.text)
         IN  IF parsed.kind = "object" /\ IsTruthy(Field(parsed, "refinements:"))
             THEN AnalysisFromParsed(parsed, 1)
             ELSE AnalysisFallback(1)

analyzeSearchIntent(input, isResume, provider) ==
    IF LocalMissingInfo(input) > 0 /\ ~isResume
    THEN Analysis("R_empty", MissingList(LocalMissingInfo(input)), 0)
    ELSE IF provider.kind = "throw" THEN AnalysisCatch(1)
    ELSE LET parsed == safeJsonParse(provider.text)
         IN  IF parsed.kind = "object" /\ IsTruthy(Field(parsed, "refinements:"))
             THEN AnalysisFromParsed(parsed, 1)
             ELSE AnalysisFallback(1)

(***************************************************************************)
(* SpecIntent: analyzeSearchIntent on every short prompt and every         *)
(* provider behaviour.                                                     *)
(***************************************************************************)
MaxWords == 3

IntentTexts == {
    << >>,
    <<"prose">>,
    <<"prose", "refinements:", "str">>,
    <<"{", "refinements:", "R_full", "}">>,
    <<"{", "refinements:", "R_full", ",", "missingInfo:", "list0", "}">>,
    <<"fence", "{", "refinements:", "R_notitle", ",", "missingInfo:", "list1", ",", "}", "fence">>,
    <<"{", "refinements:", "R_full", ",", "missingInfo:", "str", "}">>,
    <<"{", "refinements:", "R_nocity", ",", "missingInfo:", "str", "}">>,
    <<"{", "refinements:", "R_bare", ",", "missingInfo:", "null", "}">>,
    <<"{", "refinements:", "str", ",", "missingInfo:", "list1", "}">>,
    <<"{", "refinements:", "R_full">>,
    <<"{", "missingInfo:", "list1", "}">>,
    <<"{", "refinements:", "null", "}">>,
    <<"[", "str", "]">> }

ProviderThrows == [kind |-> "throw", text |-> << >>]
IntentProviders == {ProviderThrows} \cup {[kind |-> "text", text |-> t] : t \in IntentTexts}

InitIntent ==
    /\ arg \in [input : SeqsUpTo(InputWords, MaxWords), isResume : BOOLEAN,
                provider : IntentProviders]
    /\ ret = NoValue
    /\ phase = "call"
    /\ RunIdle /\ CredIdle

CallAnalyzeSearchIntent ==
    /\ phase = "call"
    /\ ret' = analyzeSearchIntent(arg.input, arg.isResume, arg.provider)
    /\ phase' = "done"
    /\ UNCHANGED <<arg, runVars, credVars>>

NextIntent == CallAnalyzeSearchIntent

SpecIntent == InitIntent /\ [][NextIntent]_vars

\* The provider was called and failed, or its text did not decode.
ProviderOrParseFailure ==
    /\ ret.providerCalls > 0
    /\ arg.provider.kind = "throw" \/ ~DecodeSucceeds(arg.provider.text)

\* C6: analyzeSearchIntent never throws; its result holds a refinements object
\* and a missingInfo list; on a provider error or a parse failure the
\* refinements are the default (location.remote = true, seniority = 'mid') and
\* missingInfo is non-empty.
C6_AlwaysUsableResult ==
    phase = "done" =>
        /\ ret.kind = "value"
        /\ IsRefinementsObject(ret.refinements)
        /\ ret.missingInfo.tag = "list"
        /\ ProviderOrParseFailure =>
              /\ RefRemote(ret.refinements) /\ RefSeniority(ret.refinements) = "mid"
              /\ ret.missingInfo.len > 0

\* The part of C6 that the code keeps: no exception, and the default result
\* with a non-empty missingInfo list on a provider error or a parse failure.
C6_FallbackOnFailure ==
    phase = "done" =>
        /\ ret.kind = "value"
        /\ ProviderOrParseFailure =>
              /\ RefRemote(ret.refinements) /\ RefSeniority(ret.refinements) = "mid"
              /\ ret.missingInfo.tag = "list" /\ ret.missingInfo.len > 0

\* The provider's text failed to decode and the default came back.
C6_Witness ==
    /\ phase = "done"
    /\ arg.provider.kind = "text" /\ ~DecodeSucceeds(arg.provider.text)
    /\ ret.providerCalls = 1
    /\ ret.refinements = "R_default"

(***************************************************************************)
(* Job texts (titles, snippets, descriptions) and extractJobDate.          *)
(***************************************************************************)
MaxN == 5

\* Numbers are written in digits; NumVal is parseInt.
NumToks == {ToString(n) : n \in 0..MaxN}
NumVal(t) == CHOOSE n \in 0..MaxN : ToString(n) = t

\* "days" stands for day or days (the patterns read day[s]?), and so on.
\* "Chicago" is a word that contains the letters "ago"; "Python" is any other
\* word.
JobWords == {"today", "yesterday", "hours", "days", "weeks", "months", "ago",
             "Chicago", "Python"} \cup NumToks

HasWord(text, w) == \E i \in 1..Len(text) : text[i] = w

\* text.includes('ago')
IncludesAgo(text) == HasWord(text, "ago") \/ HasWord(text, "Chicago")

\* The places where /(\d+)\s+<unit>[s]?\s+ago/i matches.
AgoMatches(text, unit) ==
    {i \in 1..(Len(text) - 2) :
        text[i] \in NumToks /\ text[i + 1] = unit /\ text[i + 2] = "ago"}

\* The number captured by the first (leftmost) match.
FirstMatch(text, unit) == NumVal(text[Min(AgoMatches(text, unit))])

\* A Date is how many hours before now it lies; NoDate is null.
NoDate == [isNull |-> TRUE, hoursAgo |-> 0]
DateAgo(h) == [isNull |-> FALSE, hoursAgo |-> h]
Now == DateAgo(0)
HoursPerDay == 24
DaysPerWeek == 7
MaxDaysOld == 4

extractJobDate(text) ==
    IF text = << >> THEN NoDate
    ELSE IF HasWord(text, "today") THEN Now
    ELSE IF HasWord(text, "yesterday") THEN DateAgo(HoursPerDay)
    ELSE IF AgoMatches(text, "hours") # {} THEN DateAgo(FirstMatch(text, "hours"))
    ELSE IF AgoMatches(text, "days") # {}
         THEN IF FirstMatch(text, "days") > MaxDaysOld THEN NoDate
              ELSE DateAgo(HoursPerDay * FirstMatch(text, "days"))
    ELSE IF AgoMatches(text, "weeks") # {}
         THEN IF FirstMatch(text, "weeks") >= 1 THEN NoDate
              ELSE DateAgo(HoursPerDay * DaysPerWeek * FirstMatch(text, "weeks"))
    ELSE NoDate

\* The staleness test of processJobResult: no date and the text includes 'ago'.
IsStale(text) == extractJobDate(text).isNull /\ IncludesAgo(text)

\* jobDate || new Date()
PostedDate(text) == IF extractJobDate(text).isNull THEN Now ELSE extractJobDate(text)

(***************************************************************************)
(* Scraped jobs, refinements and listings.                                 *)
(***************************************************************************)

\* A string field that is undefined (absent from the decoded JSON).
Undefined == "<undefined>"
\* "<null>" is a null decoded from JSON.
Falsy(str) == str \in {"", Undefined, "<null>"}

\* A description: its date and skill words, its length in characters and its
\* lines ("requirements" / "responsibilities": a heading line naming that word;
\* "item": another line of more than 10 characters; "short": a shorter line).
\* tag "marker" is the text 'Please visit the job page for full details.'.
Desc(words, chars, lines) ==
    [tag |-> "text", words |-> words, chars |-> chars, lines |-> lines]
EmptyDesc == Desc(<< >>, 0, << >>)
UndefinedDesc == [tag |-> "undefined", words |-> << >>, chars |-> 0, lines |-> << >>]
MarkerDescChars == 43
MarkerDesc == [tag |-> "marker", words |-> << >>, chars |-> MarkerDescChars, lines |-> << >>]
DescFalsy(d) == d.tag = "undefined" \/ (d.tag = "text" /\ d.chars = 0)

ScrapedJob(title, company, location, description, salary, employmentType) ==
    [title |-> title, company |-> company, location |-> location,
     description |-> description, salary |-> salary, employmentType |-> employmentType]

\* SearchRefinements, as far as the pipeline reads them: location.city ("" when
\* unset), location.remote, salary.min (0 when unset), mustHaveSkills, dateRange.
Refinements(city, remote, salaryMin, skills, dateRange) ==
    [city |-> city, remote |-> remote, salaryMin |-> salaryMin,
     mustHaveSkills |-> skills, dateRange |-> dateRange]

\* String literals of a provider's JSON and the strings they decode to.
StringOf(v) == CASE v = "s_title" -> "Backend Engineer"
                 [] v = "s_company" -> "Acme Co"
                 [] v = "s_austin" -> "Austin, TX"
                 [] v = "s_salary" -> "$120,000"
                 [] v = "s_remote" -> "Remote"
                 [] v = "str" -> "x"
                 [] v = "estr" -> ""
                 [] v = "absent" -> Undefined
                 [] OTHER -> "<" \o v \o ">"
IsStringValue(v) == v \in {"s_title", "s_company", "s_austin", "s_salary", "s_remote",
                           "str", "estr"}

ProviderDescChars == 400
DescOf(v) == CASE v = "s_desc" -> Desc(<<"Python">>, ProviderDescChars, << >>)
               [] v = "estr" -> EmptyDesc
               [] v = "absent" -> UndefinedDesc
               [] OTHER -> Desc(<< >>, 1, << >>)

ListOf(v) == IF IsArrayValue(v) THEN [i \in 1..ArrayLen(v) |-> "provider item"]
             ELSE << >>

\* location.includes(city), for the strings of the model (case-sensitive).
StringIncludes(str, part) ==
    \/ part = ""
    \/ str = part
    \/ <<str, part>> \in {<<"Austin, TX", "Austin">>, <<"Remote, Austin, TX", "Austin">>}

\* parseInt(salary.replace(/\D/g, '')): the digits of the string read as one
\* number; -1 stands for NaN (no digit).
SalaryNumber(salary) == CASE salary = "$120,000" -> 120000
                          [] salary = "$80k-$100k" -> 80100
                          [] salary = "$50 per hour" -> 50
                          [] OTHER -> -1

\* jobText.includes(skill.toLowerCase()) on `${job.title} ${job.description}`.
SkillWords(skill) == CASE skill = "Python" -> {"Python"}
                       [] skill = "go" -> {"ago", "Chicago"}
                       [] OTHER -> {}
TextIncludesSkill(title, description, skill) ==
    \/ \E i \in 1..Len(description.words) : description.words[i] \in SkillWords(skill)
    \/ (skill = "Backend" /\ title = "Backend Engineer")

BaseScore == 70
LocationBonus == 10
RemoteBonus == 10
SalaryBonus == 5
SkillBonus == 2
MaxScore == 95

MatchedSkills(job, refinements) ==
    {k \in 1..Len(refinements.mustHaveSkills) :
        TextIncludesSkill(job.title, job.description, refinements.mustHaveSkills[k])}

LocationMatches(job, refinements) ==
    refinements.city # "" /\ StringIncludes(job.location, refinements.city)
RemoteMatches(job, refinements) ==
    refinements.remote /\ job.workplaceType = "Remote"
SalaryMatches(job, refinements) ==
    /\ ~Falsy(job.salary) /\ refinements.salaryMin # 0
    /\ SalaryNumber(job.salary) >= refinements.salaryMin

MutCalculateMatchScoreNoCap(job, refinements) ==
    BaseScore
    + (IF LocationMatches(job, refinements) THEN LocationBonus ELSE 0)
    + (IF RemoteMatches(job, refinements) THEN RemoteBonus ELSE 0)
    + (IF SalaryMatches(job, refinements) THEN SalaryBonus ELSE 0)
    + SkillBonus * Cardinality(MatchedSkills(job, refinements))

calculateMatchScore(job, refinements) ==
    LET score == BaseScore
                 + (IF LocationMatches(job, refinements) THEN LocationBonus ELSE 0)
                 + (IF RemoteMatches(job, refinements) THEN RemoteBonus ELSE 0)
                 + (IF SalaryMatches(job, refinements) THEN SalaryBonus ELSE 0)
                 + SkillBonus * Cardinality(MatchedSkills(job, refinements))
    IN  IF score < MaxScore THEN score ELSE MaxScore

MaxReasons == 3
generateMatchReasons(job, refinements) ==
    LET reasons ==
            (IF LocationMatches(job, refinements) THEN <<"Location match">> ELSE << >>)
         \o (IF RemoteMatches(job, refinements) THEN <<"Remote opportunity">> ELSE << >>)
         \o (IF ~Falsy(job.salary) THEN <<"Competitive salary">> ELSE << >>)
         \o (IF MatchedSkills(job, refinements) # {} THEN <<"Matches key skills">> ELSE << >>)
    IN  SubSeq(reasons, 1, IF Len(reasons) < MaxReasons THEN Len(reasons) ELSE MaxReasons)

\* Decoded values that are no strings, as they show in a string field.
NonStrings == {StringOf(v) : v \in {"num", "null", "obj", "arr", "list0", "list1"}}

\* calculateMatchScore throws a TypeError when it calls job.location.includes
\* on a location that is no string (a city being asked for), and when it calls
\* job.salary.replace on a truthy salary that is no string (a minimum salary
\* being asked for).
ScoringThrows(job, refinements) ==
    \/ (refinements.city # "" /\ job.location \in NonStrings \cup {Undefined})
    \/ (refinements.salaryMin # 0 /\ job.salary \in NonStrings \ {StringOf("null")})

(***************************************************************************)
(* structureJobWithGemini: the structuring engine.                         *)
(***************************************************************************)

RECURSIVE CaptureLines(_, _, _, _, _)
\* The loop of extractListFromText over lines[i..]: a line including the type
\* word starts the capture and is skipped; while capturing, every other line
\* of more than 10 characters is taken, up to MaxListItems.
MaxListItems == 5
CaptureLines(lines, type, i, capturing, items) ==
    IF i > Len(lines) THEN items
    ELSE IF lines[i] = type THEN CaptureLines(lines, type, i + 1, TRUE, items)
    ELSE IF capturing /\ lines[i] # "short"
         THEN IF Len(items) + 1 >= MaxListItems THEN Append(items, lines[i])
              ELSE CaptureLines(lines, type, i + 1, capturing, Append(items, lines[i]))
    ELSE CaptureLines(lines, type, i + 1, capturing, items)

\* extractListFromText(text, type) || [placeholder]
extractListFromText(description, type, placeholder) ==
    LET items == IF DescFalsy(description) THEN << >>
                 ELSE CaptureLines(description.lines, type, 1, FALSE, << >>)
    IN  IF items = << >> THEN <<placeholder>> ELSE items

NoListing == [kind |-> "null"]

Or(str, default) == IF Falsy(str) THEN default ELSE str

\* The listing built from the raw record alone (part_002:825-846 and 863-880).
\* id is generateJobId(url), a fresh identifier: it is given by the caller that
\* collects the listings (0 here).
RawListing(raw, url, employmentType, requirements, responsibilities) ==
    [kind |-> "listing", id |-> 0,
     title |-> Or(raw.title, "Job Opening"),
     company |-> Or(raw.company, "Company"),
     location |-> Or(raw.location, "Location not specified"),
     description |-> IF DescFalsy(raw.description) THEN MarkerDesc ELSE raw.description,
     salary |-> Or(raw.salary, "Competitive"),
     employmentType |-> employmentType,
     workplaceType |-> "Onsite",
     requirements |-> requirements,
     responsibilities |-> responsibilities,
     sourceUrl |-> url,
     postedDate |-> Now,
     matchScore |-> BaseScore,
     matchReasons |-> <<"Potential match">>]

\* if (!jobData): the fallback of a response that did not parse.
ParseFailureListing(raw, url) ==
    RawListing(raw, url, Or(raw.employmentType, "Full-time"),
               extractListFromText(raw.description, "requirements",
                                   "Please visit the job page for requirements"),
               extractListFromText(raw.description, "responsibilities",
                                   "Please visit the job page for responsibilities"))

\* catch (error): the fallback of a provider call (or a scoring) that threw.
CatchListing(raw, url) ==
    RawListing(raw, url, "Full-time",
               <<"Visit job page for full requirements">>,
               <<"Visit job page for full responsibilities">>)

FieldsOf(v) == IF v.kind = "object" THEN v ELSE JsonObject(<< >>)

\* The decoded jobData as a job: {...jobData}.
JobOfData(jobData) ==
    LET d == FieldsOf(jobData)
    IN  [title |-> StringOf(Field(d, "title:")),
         company |-> StringOf(Field(d, "company:")),
         location |-> StringOf(Field(d, "location:")),
         description |-> DescOf(Field(d, "description:")),
         salary |-> StringOf(Field(d, "salary:")),
         employmentType |-> StringOf(Field(d, "employmentType:")),
         workplaceType |-> StringOf(Field(d, "workplaceType:")),
         requirements |-> ListOf(Field(d, "requirements:")),
         responsibilities |-> ListOf(Field(d, "responsibilities:"))]

\* {id, ...jobData, sourceUrl, postedDate, matchScore, matchReasons}
ProviderListing(jobData, url, refinements) ==
    LET job == JobOfData(jobData)
    IN  [kind |-> "listing", id |-> 0,
         title |-> job.title, company |-> job.company, location |-> job.location,
         description |-> job.description, salary |-> job.salary,
         employmentType |-> job.employmentType, workplaceType |-> job.workplaceType,
         requirements |-> job.requirements, responsibilities |-> job.responsibilities,
         sourceUrl |-> url,
         postedDate |-> Now,
         matchScore |-> calculateMatchScore(job, refinements),
         matchReasons |-> generateMatchReasons(job, refinements)]

MutStructureNoCatch(scrapedData, url, refinements, provider) ==
    IF Falsy(scrapedData.title) /\ DescFalsy(scrapedData.description) THEN NoListing
    ELSE IF provider.kind = "throw" THEN Thrown
    ELSE LET jobData == safeJsonParse(provider.text)
         IN  IF jobData = Null THEN ParseFailureListing(scrapedData, url)
             ELSE IF ScoringThrows(JobOfData(jobData), refinements)
                  THEN CatchListing(scrapedData, url)
                  ELSE ProviderListing(jobData, url, refinements)

structureJobWithGemini(scrapedData, url, refinements, provider) ==
    IF Falsy(scrapedData.title) /\ DescFalsy(scrapedData.description) THEN NoListing
    ELSE IF provider.kind = "throw" THEN CatchListing(scrapedData, url)
    ELSE LET jobData == safeJsonParse(provider.text)
         IN  IF jobData = Null THEN ParseFailureListing(scrapedData, url)
             ELSE IF ScoringThrows(JobOfData(jobData), refinements)
                  THEN CatchListing(scrapedData, url)
                  ELSE ProviderListing(jobData, url, refinements)

(***************************************************************************)
(* SpecStructure: structureJobWithGemini on raw records with any subset of *)
(* their fields empty, under every provider behaviour.                     *)
(***************************************************************************)
RawDescChars == 150

RawDescriptions ==
    {EmptyDesc,
     Desc(<<"Python">>, RawDescChars, <<"requirements", "item", "responsibilities", "item">>),
     Desc(<<"2", "days", "ago">>, RawDescChars, << >>)}

RawJobs ==
    {ScrapedJob(t, c, l, d, sal, e) :
        t \in {"", "Backend Engineer"}, c \in {"", "Acme Co"}, l \in {"", "Austin, TX"},
        d \in RawDescriptions, sal \in {"", "$120,000"}, e \in {"", "Contract"}}

StructTexts == {
    << >>,
    <<"prose">>,
    <<"{", "title:", "s_title", ",", "company:", "s_company", ",", "location:", "s_austin",
      ",", "description:", "s_desc", ",", "salary:", "s_salary", ",",
      "workplaceType:", "s_remote", ",", "requirements:", "list1", "}">>,
    <<"fence", "{", "title:", "s_title", ",", "company:", "s_company", ",", "}", "fence">>,
    <<"{", "title:", "s_title", ",", "location:", "num", ",", "salary:", "num", "}">>,
    <<"{", "}">>,
    <<"{", "title:", "s_title">>,
    <<"prose", "refinements:">>,
    <<"[", "str", "]">> }

StructProviders == {ProviderThrows} \cup {[kind |-> "text", text |-> t] : t \in StructTexts}

SampleRefinements ==
    {Refinements("Austin", FALSE, 0, <<"Python">>, 4),
     Refinements("", TRUE, 100000, << >>, 3),
     Refinements("", TRUE, 0, <<"Python", "go">>, 7)}

InitStructure ==
    /\ arg \in [raw : RawJobs, url : {"u1"}, refinements : SampleRefinements,
                provider : StructProviders]
    /\ ret = NoValue
    /\ phase = "call"
    /\ RunIdle /\ CredIdle

CallStructureJobWithGemini ==
    /\ phase = "call"
    /\ ret' = structureJobWithGemini(arg.raw, arg.url, arg.refinements, arg.provider)
    /\ phase' = "done"
    /\ UNCHANGED <<arg, runVars, credVars>>

NextStructure == CallStructureJobWithGemini

SpecStructure == InitStructure /\ [][NextStructure]_vars

\* The required-field invariants of a JobListing (spec section 3).
RequiredFieldsHold(job) ==
    /\ ~Falsy(job.title)
    /\ ~Falsy(job.company) /\ job.company # "Company"
    /\ job.description.tag # "marker"
    /\ ~job.postedDate.isNull

FellBackToRaw ==
    \/ arg.provider.kind = "throw"
    \/ safeJsonParse(arg.provider.text) = Null
    \/ ScoringThrows(JobOfData(safeJsonParse(arg.provider.text)), arg.refinements)

BrowseUrls == {0}

\* What fetchJobPageContent returns: null (the call threw), or the cloud
\* function's data {type, job?, jobs?, error?}.
FetchNull == [type |-> "null", error |-> FALSE, job |-> << >>, jobs |-> << >>]
FetchError == [type |-> "single", error |-> TRUE, job |-> << >>, jobs |-> << >>]
FetchSingle(job) == [type |-> "single", error |-> FALSE, job |-> <<job>>, jobs |-> << >>]
FetchList(urls) == [type |-> "list", error |-> FALSE, job |-> << >>, jobs |-> urls]

ChildFanOut == 3
MinDescChars == 50

MutTakeAll(seq, n) == seq

\* seq.slice(0, n)
Take(seq, n) == SubSeq(seq, 1, IF Len(seq) < n THEN Len(seq) ELSE n)

\* structuredJob.postedDate = jobDate || new Date()
WithPostedDate(listing, words) == [listing EXCEPT !.postedDate = PostedDate(words)]

\* One child of a list page (part_002:1092-1115): the jobs it adds.
ChildJobs(childUrl, page, refinements, provider) ==
    IF page.type = "single" /\ page.job # << >>
    THEN LET job == page.job[1]
             structuredJob == structureJobWithGemini(job, childUrl, refinements, provider)
         IN  IF structuredJob = NoListing \/ IsStale(job.description.words) THEN << >>
             ELSE <<WithPostedDate(structuredJob, job.description.words)>>
    ELSE << >>

RECURSIVE ListJobs(_, _, _, _, _)
\* The loop over scraped.jobs.slice(0, 3), from child i on.
ListJobs(children, i, env, refinements, acc) ==
    IF i > Len(children) THEN acc
    ELSE IF children[i] = 0 THEN ListJobs(children, i + 1, env, refinements, acc)
    ELSE ListJobs(children, i + 1, env, refinements,
                  [jobs |-> acc.jobs \o ChildJobs(children[i], env.childPages[i],
                                                  refinements, env.providers[i]),
                   fetched |-> Append(acc.fetched, children[i])])

Resolved(jobs, urls) == [jobs |-> jobs, fetched |-> urls]

\* The snippet and title test at the head of processJobResult.
LooksOld(result) ==
    \/ (extractJobDate(result.snippet).isNull /\ IncludesAgo(result.snippet))
    \/ (extractJobDate(result.title).isNull /\ IncludesAgo(result.title))

MutProcessJobResultNoStaleTest(result, refinements, env) ==
    LET scraped == env.page
    IN  IF scraped.type = "single" /\ scraped.job # << >>
        THEN Resolved(<<WithPostedDate(
                          structureJobWithGemini(scraped.job[1], result.link, refinements,
                                                 env.providers[1]),
                          scraped.job[1].description.words)>>,
                      <<result.link>>)
        ELSE Resolved(<< >>, <<result.link>>)

\* processJobResult(result, refinements); env gives what the page-fetching
\* service returns for the result's link (page) and for each child of a list
\* page (childPages), and how the provider behaves in each structuring call.
\* The value holds the jobs returned and the URLs fetched on the way.
processJobResult(result, refinements, env) ==
    IF LooksOld(result) THEN Resolved(<< >>, << >>)
    ELSE IF result.link \in BrowseUrls THEN Resolved(<< >>, << >>)
    ELSE LET scraped == env.page
         IN  IF scraped.type = "null" \/ scraped.error
             THEN Resolved(<< >>, <<result.link>>)
             ELSE IF scraped.type = "list" /\ scraped.jobs # << >>
             THEN ListJobs(Take(scraped.jobs, ChildFanOut), 1, env, refinements,
                           Resolved(<< >>, <<result.link>>))
             ELSE IF scraped.type = "single" /\ scraped.job # << >>
             THEN LET job == scraped.job[1]
                  IN  IF \/ Falsy(job.title) \/ DescFalsy(job.description)
                         \/ job.description.chars < MinDescChars
                      THEN Resolved(<< >>, <<result.link>>)
                      ELSE IF IsStale(job.description.words)
                      THEN Resolved(<< >>, <<result.link>>)
                      ELSE Resolved(
                             <<WithPostedDate(
                                 structureJobWithGemini(job, result.link, refinements,
                                                        env.providers[1]),
                                 job.description.words)>>,
                             <<result.link>>)
             ELSE Resolved(<< >>, <<result.link>>)

\* The final date filter of searchWithRefinements: Math.floor of the days since
\* postedDate is at most 4.
DaysSincePosted(job) == job.postedDate.hoursAgo \div HoursPerDay
IsFreshJob(job) == DaysSincePosted(job) <= MaxDaysOld

(***************************************************************************)
(* SpecFresh: one search result whose page is a single job; the text under *)
(* test is the job's description or the result's snippet.                  *)
(***************************************************************************)
MaxPhraseLen == 3
FreshTexts == SeqsUpTo(JobWords, MaxPhraseLen)
DateRanges == {0, 3, 4, 30}
FreshProviders == {ProviderThrows,
                   [kind |-> "text",
                    text |-> <<"{", "title:", "s_title", ",", "company:", "s_company", "}">>]}

FreshPageJob(words) ==
    ScrapedJob("Backend Engineer", "Acme Co", "Austin, TX",
               Desc(words, RawDescChars, << >>), "", "")

FreshResult(a) ==
    [link |-> 1, title |-> << >>,
     snippet |-> IF a.where = "snippet" THEN a.text ELSE << >>]

FreshEnv(a) ==
    [page |-> FetchSingle(FreshPageJob(IF a.where = "description" THEN a.text ELSE << >>)),
     childPages |-> << >>,
     providers |-> <<a.provider>>]

InitFresh ==
    /\ arg \in [text : FreshTexts, dateRange : DateRanges,
                where : {"description", "snippet"}, provider : FreshProviders]
    /\ ret = NoValue
    /\ phase = "call"
    /\ RunIdle /\ CredIdle

\* processJobResult followed by the final date filter.
CallProcessJobResult ==
    /\ phase = "call"
    /\ LET r == processJobResult(FreshResult(arg),
                                 Refinements("", FALSE, 0, << >>, arg.dateRange),
                                 FreshEnv(arg))
       IN  ret' = [kind |-> "resolved",
                   jobs |-> SelectSeq(r.jobs, IsFreshJob),
                   fetched |-> r.fetched]
    /\ phase' = "done"
    /\ UNCHANGED <<arg, runVars, credVars>>

NextFresh == CallProcessJobResult

SpecFresh == InitFresh /\ [][NextFresh]_vars

\* The text gives a date no older than today, yesterday, hours or days.
SaysFresher(text) ==
    \/ HasWord(text, "today") \/ HasWord(text, "yesterday")
    \/ AgoMatches(text, "hours") # {} \/ AgoMatches(text, "days") # {}

SaysMonthsAgo(text) ==
    \E i \in 1..(Len(text) - 2) :
        text[i] \in NumToks /\ text[i + 1] = "months" /\ text[i + 2] = "ago"

SaysWeeksAgo(text) ==
    \E i \in 1..(Len(text) - 2) :
        text[i] \in NumToks \ {"0"} /\ text[i + 1] = "weeks" /\ text[i + 2] = "ago"

\* C10: whatever the date range of the refinements, a text saying "today" is
\* accepted (its job is returned, dated now), and a text whose date phrase is
\* "N months ago" or "N weeks ago" (N >= 1), with no today, yesterday, hours or
\* days phrase, yields zero jobs from its URL.
C10_WindowIndependent ==
    phase = "done" =>
        /\ HasWord(arg.text, "today") =>
              /\ Len(ret.jobs) = 1
              /\ ret.jobs[1].postedDate = Now
        /\ (~SaysFresher(arg.text) /\ (SaysMonthsAgo(arg.text) \/ SaysWeeksAgo(arg.text)))
              => ret.jobs = << >>

C10_Witness ==
    /\ phase = "done"
    /\ arg.where = "description"
    /\ arg.text = <<"3", "weeks", "ago">>
    /\ arg.dateRange = 30
    /\ ret.jobs = << >>
    /\ ret.fetched = <<1>>

(***************************************************************************)
(* The end of searchWithRefinements: date filter, removeDuplicateJobs,     *)
(* filterQualityJobs, sort, slice.                                         *)
(***************************************************************************)

\* str.toLowerCase().trim(), for the strings of the model.
LowerTrim(str) == CASE str = "Backend Engineer" -> "backend engineer"
                    [] str = "backend engineer " -> "backend engineer"
                    [] str = "Data Engineer" -> "data engineer"
                    [] str = "Acme Co" -> "acme co"
                    [] str = "Globex" -> "globex"
                    [] str = "Austin, TX" -> "austin, tx"
                    [] str = "Remote" -> "remote"
                    [] OTHER -> str

MinDedupDescChars == 100

\* The two early skips of removeDuplicateJobs.
DedupSkips(job) ==
    \/ Falsy(job.title) \/ Falsy(job.company) \/ job.title = "Job Opening"
    \/ DescFalsy(job.description) \/ job.description.chars < MinDedupDescChars

\* toLowerCase is no function of a title, company or location that is no string.
SignatureThrows(job) ==
    \/ job.title \in NonStrings
    \/ job.company \in NonStrings
    \/ job.location \in NonStrings \ {"<null>"}

TitleCompany(job) == LowerTrim(job.title) \o "_" \o LowerTrim(job.company)
TitleLocation(job) ==
    LowerTrim(job.title) \o "_" \o
    (IF Falsy(job.location) /\ job.location # "" THEN "undefined" ELSE LowerTrim(job.location))

RECURSIVE DedupFrom(_, _, _, _)
\* The loop of removeDuplicateJobs from job i on: seenTitles and the jobs kept.
DedupFrom(jobs, i, seenTitles, uniqueJobs) ==
    IF i > Len(jobs) THEN uniqueJobs
    ELSE IF DedupSkips(jobs[i]) THEN DedupFrom(jobs, i + 1, seenTitles, uniqueJobs)
    ELSE IF TitleCompany(jobs[i]) \in seenTitles \/ TitleLocation(jobs[i]) \in seenTitles
         THEN DedupFrom(jobs, i + 1, seenTitles, uniqueJobs)
    ELSE DedupFrom(jobs, i + 1, seenTitles \cup {TitleCompany(jobs[i])},
                   Append(uniqueJobs, jobs[i]))

removeDuplicateJobs(jobs) == DedupFrom(jobs, 1, {}, << >>)

\* removeDuplicateJobs throws when it reaches a job whose signature throws.
DedupThrows(jobs) ==
    \E i \in 1..Len(jobs) : ~DedupSkips(jobs[i]) /\ SignatureThrows(jobs[i])

MinTitleChars == 5
MinCompanyChars == 2

IsQualityJob(job) ==
    /\ ~Falsy(job.title) /\ ~Falsy(job.company) /\ ~DescFalsy(job.description)
    /\ ~(Len(job.title) < MinTitleChars \/ job.title = "Job Opening")
    /\ ~(job.company = "Company" \/ Len(job.company) < MinCompanyChars)
    /\ ~(job.description.chars < MinDedupDescChars \/ job.description.tag = "marker")
    /\ ~(job.requirements = << >> /\ job.responsibilities = << >>)

MutFilterQualityJobsNone(jobs) == jobs

filterQualityJobs(jobs) == SelectSeq(jobs, IsQualityJob)

\* The comparator of the final sort: newer first, then the higher score.
SortsBefore(a, b) ==
    \/ a.postedDate.hoursAgo < b.postedDate.hoursAgo
    \/ (a.postedDate.hoursAgo = b.postedDate.hoursAgo /\ a.matchScore > b.matchScore)

\* Array.prototype.sort is stable: job goes after every job it does not sort
\* before.
InsertSorted(sorted, job) ==
    LET k == Cardinality({i \in 1..Len(sorted) : ~SortsBefore(job, sorted[i])})
    IN  SubSeq(sorted, 1, k) \o <<job>> \o SubSeq(sorted, k + 1, Len(sorted))

RECURSIVE SortFrom(_, _, _)
SortFrom(jobs, i, sorted) ==
    IF i > Len(jobs) THEN sorted
    ELSE SortFrom(jobs, i + 1, InsertSorted(sorted, jobs[i]))

MutSortJobsNone(jobs) == jobs

SortJobs(jobs) == SortFrom(jobs, 1, << >>)

MaxReturned == 20

\* What searchWithRefinements returns for the jobs it collected: always an
\* array, empty when an exception reached the outer catch.
JobArray(items) == [kind |-> "array", items |-> items]

FinalJobs(jobs) ==
    LET freshJobs == SelectSeq(jobs, IsFreshJob)
    IN  IF DedupThrows(freshJobs) THEN JobArray(<< >>)
        ELSE JobArray(Take(SortJobs(filterQualityJobs(removeDuplicateJobs(freshJobs))),
                           MaxReturned))

(***************************************************************************)
(* SpecRun: one call of searchWithRefinements.                             *)
(***************************************************************************)
NumSearches == 5
JobCap == 25
MaxResults == 2

\* Links of search results; 0 is a search page, which BrowseUrls holds.
Urls == {0, 1, 2}

FreshSnippet == << >>
OldSnippet == <<"3", "weeks", "ago">>
SearchResult(link, snippet) == [link |-> link, title |-> << >>, snippet |-> snippet]
ResultPool == {SearchResult(u, FreshSnippet) : u \in Urls} \cup {SearchResult(2, OldSnippet)}

\* serperResponse.data.organic || []
ResultLists == SeqsUpTo(ResultPool, MaxResults)

\* The snippet test of the loop: week or month with 'ago', or more than 4 days.
SnippetSkips(snippet) ==
    /\ snippet # << >>
    /\ \/ (HasWord(snippet, "weeks") /\ IncludesAgo(snippet))
       \/ (HasWord(snippet, "months") /\ IncludesAgo(snippet))
       \/ (AgoMatches(snippet, "days") # {} /\ FirstMatch(snippet, "days") > MaxDaysOld)

\* The pages behind the links.
PageTitle(u) == IF u = 1 THEN "Backend Engineer" ELSE "Data Engineer"
PageWords(u) == IF u = 1 THEN <<"Python", "2", "days", "ago">> ELSE <<"today">>
PageJob(u) ==
    ScrapedJob(PageTitle(u), "Acme Co", "Austin, TX",
               Desc(PageWords(u), RawDescChars, <<"requirements", "item">>), "", "")
EmptyJob == ScrapedJob("", "", "", EmptyDesc, "", "")

\* A list page names four jobs, the second without a url.
ChildList == <<1, 0, 2, 1>>
ChildPagesOk == [i \in 1..ChildFanOut |-> FetchSingle(PageJob(ChildList[i]))]
ChildPageSets ==
    {ChildPagesOk, [ChildPagesOk EXCEPT ![1] = FetchNull, ![3] = FetchError]}

RunProviderText ==
    <<"{", "title:", "s_title", ",", "company:", "s_company", ",", "location:", "s_austin",
      ",", "description:", "s_desc", ",", "requirements:", "list1", "}">>
RunProviders == {ProviderThrows, [kind |-> "text", text |-> RunProviderText]}

Env(result, page, childPages, provider) ==
    [kind |-> "env", result |-> result, page |-> page, childPages |-> childPages,
     providers |-> [i \in 1..ChildFanOut |-> provider]]

FailingPages == {FetchNull, FetchError, FetchSingle(EmptyJob)}

\* What the page service and the provider may answer while a result is resolved
\* (nothing is asked of them for a search page).
Envs(result) ==
  IF result.link \in BrowseUrls THEN {Env(result, FetchNull, << >>, ProviderThrows)}
  ELSE
       {Env(result, page, << >>, ProviderThrows) : page \in FailingPages}
  \cup {Env(result, FetchSingle(PageJob(result.link)), << >>, p) : p \in RunProviders}
  \cup {Env(result, FetchList(ChildList), c, p) : c \in ChildPageSets, p \in RunProviders}

\* generateJobId: every listing gets an identifier of its own.
WithIds(jobs, base) == [i \in 1..Len(jobs) |-> [jobs[i] EXCEPT !.id = base + i]]

RunRefinements == {Refinements("Austin", FALSE, 0, <<"Python">>, 4)}

\* The wide world: every query answers with three results of its own, then a
\* result seen before and a result with an old snippet; every page is a list
\* page that names four jobs, whose pages answer; those of the first result
\* of a query may all fail.
ResultsPerQuery == 3
WideResults(idx) ==
    [k \in 1..ResultsPerQuery |->
        SearchResult(ResultsPerQuery * (idx - 1) + k, FreshSnippet)]
    \o <<SearchResult(1, FreshSnippet), SearchResult(99, OldSnippet)>>
WideChildren(u) == [k \in 1..(ChildFanOut + 1) |-> 100 * u + k]
WideEnvs(result) ==
    {Env(result, FetchList(WideChildren(result.link)), childPages,
         [kind |-> "text", text |-> RunProviderText]) :
        childPages \in
            {[k \in 1..ChildFanOut |-> FetchSingle(PageJob(WideChildren(result.link)[k]))]}
            \cup (IF result.link % ResultsPerQuery = 1
                  THEN {[k \in 1..ChildFanOut |-> FetchNull]} ELSE {})}

\* What the search provider answers to the query being issued, and what the
\* page service and the provider answer while a result is resolved.
SearchAnswers == IF arg.world = "wide" THEN {WideResults(searchIdx)} ELSE ResultLists
PageAnswers(result) == IF arg.world = "wide" THEN WideEnvs(result) ELSE Envs(result)

InitRun ==
    /\ arg \in [refinements : RunRefinements, world : {"narrow"}]
    /\ ret = NoValue
    /\ phase = "loop"
    /\ searchIdx = 1
    /\ searchResults = << >> /\ processedUrls = {} /\ allJobs = << >>
    /\ failedSearches = {} /\ fetched = << >> /\ resolved = << >>
    /\ lastEnv = [kind |-> "none"]
    /\ CredIdle

\* The end of an iteration of the loop over searches; capCheck is false after
\* the catch, whose continue skips the test of the cap.
NextSearch(jobs, capCheck) ==
    IF (capCheck /\ Len(jobs) >= JobCap) \/ searchIdx = NumSearches
    THEN phase' = "final" /\ searchIdx' = searchIdx
    ELSE phase' = "loop" /\ searchIdx' = searchIdx + 1

MutNextResultNoCap(rest, jobs) ==
    IF rest = << >>
    THEN searchResults' = << >> /\ NextSearch(jobs, TRUE)
    ELSE searchResults' = rest /\ phase' = "results" /\ searchIdx' = searchIdx

\* The end of an iteration of the loop over the results of a search.
NextResult(rest, jobs) ==
    IF rest = << >> \/ Len(jobs) >= JobCap
    THEN searchResults' = << >> /\ NextSearch(jobs, TRUE)
    ELSE searchResults' = rest /\ phase' = "results" /\ searchIdx' = searchIdx

MutSearchFailsAborts ==
    /\ phase = "loop"
    /\ failedSearches' = failedSearches \cup {searchIdx}
    /\ phase' = "done"
    /\ ret' = JobArray(<< >>)
    /\ UNCHANGED <<arg, searchIdx, searchResults, processedUrls, allJobs, fetched,
                   resolved, lastEnv, credVars>>

\* The request of a search throws (timeout, 4xx/5xx): catch, continue.
SearchFails ==
    /\ phase = "loop"
    /\ failedSearches' = failedSearches \cup {searchIdx}
    /\ NextSearch(allJobs, FALSE)
    /\ UNCHANGED <<arg, ret, searchResults, processedUrls, allJobs, fetched, resolved,
                   lastEnv, credVars>>

\* The request of a search answers with its organic results.
SearchReturns ==
    /\ phase = "loop"
    /\ \E rs \in SearchAnswers : NextResult(rs, allJobs)
    /\ UNCHANGED <<arg, ret, processedUrls, allJobs, failedSearches, fetched, resolved,
                   lastEnv, credVars>>

MutSkipProcessedResolves ==
    /\ phase = "results"
    /\ Head(searchResults).link \in processedUrls
    /\ resolved' = Handed(resolved, Head(searchResults).link)
    /\ \E env \in PageAnswers(Head(searchResults)) :
          LET r == processJobResult(env.result, arg.refinements, env)
          IN  /\ lastEnv' = IF r.fetched = << >> THEN lastEnv ELSE env
              /\ fetched' = fetched \o r.fetched
              /\ allJobs' = allJobs \o WithIds(r.jobs, Len(allJobs))
              /\ NextResult(Tail(searchResults), allJobs')
    /\ UNCHANGED <<arg, ret, processedUrls, failedSearches, credVars>>

\* A result whose link was processed before.
SkipProcessed ==
    /\ phase = "results"
    /\ Head(searchResults).link \in processedUrls
    /\ NextResult(Tail(searchResults), allJobs)
    /\ UNCHANGED <<arg, ret, processedUrls, allJobs, failedSearches, fetched, resolved,
                   lastEnv, credVars>>

\* A result whose snippet shows an old job.
SkipOldSnippet ==
    /\ phase = "results"
    /\ Head(searchResults).link \notin processedUrls
    /\ SnippetSkips(Head(searchResults).snippet)
    /\ processedUrls' = processedUrls \cup {Head(searchResults).link}
    /\ NextResult(Tail(searchResults), allJobs)
    /\ UNCHANGED <<arg, ret, allJobs, failedSearches, fetched, resolved, lastEnv,
                   credVars>>

MutProcessResultFailFast ==
    /\ phase = "results"
    /\ Head(searchResults).link \notin processedUrls
    /\ ~SnippetSkips(Head(searchResults).snippet)
    /\ processedUrls' = processedUrls \cup {Head(searchResults).link}
    /\ resolved' = Handed(resolved, Head(searchResults).link)
    /\ \E env \in PageAnswers(Head(searchResults)) :
          LET r == processJobResult(env.result, arg.refinements, env)
          IN  /\ lastEnv' = IF r.fetched = << >> THEN lastEnv ELSE env
              /\ fetched' = fetched \o r.fetched
              /\ IF env.page \in FailingPages /\ r.fetched # << >>
                 THEN /\ allJobs' = << >>
                      /\ searchResults' = << >> /\ NextSearch(<< >>, FALSE)
                 ELSE /\ allJobs' = allJobs \o WithIds(r.jobs, Len(allJobs))
                      /\ NextResult(Tail(searchResults), allJobs')
    /\ UNCHANGED <<arg, ret, failedSearches, credVars>>

\* const jobs = await processJobResult(result, refinements); allJobs.push(...jobs)
ProcessResult ==
    /\ phase = "results"
    /\ Head(searchResults).link \notin processedUrls
    /\ ~SnippetSkips(Head(searchResults).snippet)
    /\ processedUrls' = processedUrls \cup {Head(searchResults).link}
    /\ resolved' = Handed(resolved, Head(searchResults).link)
    /\ \E env \in PageAnswers(Head(searchResults)) :
          LET r == processJobResult(env.result, arg.refinements, env)
          IN  /\ lastEnv' = IF r.fetched = << >> THEN lastEnv ELSE env
              /\ fetched' = fetched \o r.fetched
              /\ allJobs' = allJobs \o WithIds(r.jobs, Len(allJobs))
              /\ NextResult(Tail(searchResults), allJobs')
    /\ UNCHANGED <<arg, ret, failedSearches, credVars>>

\* The final date filter, deduplication, quality filter, sort and slice.
ReturnJobs ==
    /\ phase = "final"
    /\ ret' = FinalJobs(allJobs)
    /\ phase' = "done"
    /\ UNCHANGED <<arg, runVars, credVars>>

NextRun ==
    \/ SearchFails \/ SearchReturns
    \/ SkipProcessed \/ SkipOldSnippet \/ ProcessResult
    \/ ReturnJobs

SpecRun == InitRun /\ [][NextRun]_vars

\* SpecCap: one call of searchWithRefinements in the wide world, where the
\* run can collect 25 jobs.
InitCap ==
    /\ arg \in [refinements : RunRefinements, world : {"wide"}]
    /\ ret = NoValue
    /\ phase = "loop"
    /\ searchIdx = 1
    /\ searchResults = << >> /\ processedUrls = {} /\ allJobs = << >>
    /\ failedSearches = {} /\ fetched = << >> /\ resolved = << >>
    /\ lastEnv = [kind |-> "none"]
    /\ CredIdle

SpecCap == InitCap /\ [][NextRun]_vars

\* C4 (as stated): a run in which every search query failed returns something
\* the caller can tell from the well-formed empty list of a run that found no
\* job.
C4_FailureDistinctFromEmpty ==
    (phase = "done" /\ failedSearches = 1..NumSearches) => ret # JobArray(<< >>)

\* C8: a search whose request fails changes neither allJobs nor processedUrls
\* and the loop goes on with the next search (to the final filters after the
\* last one); the loop over searches ends only after the last search or with
\* the cap reached.
C8_FailedSearchSkipped ==
    /\ [](phase \in {"final", "done"} => (searchIdx = NumSearches \/ Len(allJobs) >= JobCap))
    /\ [][failedSearches' # failedSearches =>
            /\ allJobs' = allJobs /\ processedUrls' = processedUrls /\ ret' = ret
            /\ IF searchIdx < NumSearches
               THEN phase' = "loop" /\ searchIdx' = searchIdx + 1
               ELSE phase' = "final"]_vars

C8_Witness ==
    /\ phase = "done"
    /\ failedSearches = {1, 3}
    /\ fetched # << >>
    /\ ret.items # << >>

\* The children of a list page that give a job.
GoodChildren(e) ==
    {i \in 1..ChildFanOut : ChildList[i] # 0 /\ e.childPages[i] \notin FailingPages}

\* C9: when a result is resolved and its page fetch gives an error, no response
\* or an empty single job, allJobs is left as it is; a child of a list page
\* whose fetch fails gives no job while the other children give theirs; in each
\* case the jobs collected before stay, the search is not counted as failed,
\* and the results that remain are still to be looked at.
C9_FetchFailureIsolated ==
    [][lastEnv' # lastEnv =>
         /\ fetched' # fetched
         /\ SubSeq(allJobs', 1, Len(allJobs)) = allJobs
         /\ lastEnv'.page \in FailingPages => allJobs' = allJobs
         /\ lastEnv'.page.type = "list" =>
               Len(allJobs') = Len(allJobs) + Cardinality(GoodChildren(lastEnv'))
         /\ failedSearches' = failedSearches
         /\ phase' # "done"
         /\ (Tail(searchResults) # << >> /\ Len(allJobs') < JobCap) =>
               (searchResults' = Tail(searchResults) /\ phase' = "results")]_vars

C9_Witness ==
    /\ phase = "results"
    /\ lastEnv.kind = "env"
    /\ lastEnv.page = FetchError
    /\ allJobs # << >>
    /\ searchResults # << >>

(***************************************************************************)
(* Spec: the dashboards of one user and the credit ledger.                 *)
(* analyzeAndRefine, handleSearch (part_001) and deductCredits             *)
(* (jobService.ts), whose three Firestore requests are separate steps.     *)
(***************************************************************************)
MaxCredits == 1
MaxPipelineCalls == 2

\* The dashboards (browser tabs or devices) the user has open.
Tabs == {1, 2}

DashInputs == {<<"developer">>, <<"developer", "remote", "100k">>}
DashProviders ==
    {ProviderThrows,
     [kind |-> "text", text |-> <<"{", "refinements:", "R_full", ",", "missingInfo:", "list0", "}">>],
     [kind |-> "text", text |-> <<"{", "refinements:", "R_full", "}">>]}

\* What analyzeSearchIntent may return to a dashboard.
DashAnalyses ==
    {analyzeSearchIntent(input, isResume, provider) :
        input \in DashInputs, isResume \in BOOLEAN, provider \in DashProviders}

NotEntered == -1

Init ==
    /\ credits0 \in 0..MaxCredits
    /\ credits = credits0
    /\ usage = 0 /\ granted = 0 /\ purchases = 0
    /\ pc = [t \in Tabs |-> "idle"]
    /\ profile = [t \in Tabs |-> credits0]
    /\ atStart = [t \in Tabs |-> NotEntered]
    /\ deducted = [t \in Tabs |-> "none"]
    /\ log = [t \in Tabs |-> << >>]
    /\ toast = [t \in Tabs |-> "none"]
    /\ arg = NoValue /\ ret = NoValue /\ phase = "none"
    /\ RunIdle

\* onSnapshot delivers the user document to the dashboard's cached profile.
ProfileSnapshot(t) ==
    /\ profile[t] # credits
    /\ profile' = [profile EXCEPT ![t] = credits]
    /\ UNCHANGED <<fnVars, runVars, purchases, credits, credits0, usage, granted, pc, atStart,
                   deducted, log, toast>>

MutHandleSearchSkipsLedger(t, calls) ==
    /\ atStart' = [atStart EXCEPT ![t] = credits]
    /\ deducted' = [deducted EXCEPT ![t] = "none"]
    /\ log' = [log EXCEPT ![t] = calls]
    /\ IF profile[t] <= 0
       THEN /\ toast' = [toast EXCEPT ![t] = "Insufficient credits"]
            /\ pc' = [pc EXCEPT ![t] = "idle"]
       ELSE /\ toast' = [toast EXCEPT ![t] = "Searching"]
            /\ pc' = [pc EXCEPT ![t] = "searching"]

\* handleSearch up to its first await: the test of the cached profile, then the
\* call of deductCredits.  calls are the external calls of the invocation so far.
HandleSearch(t, calls) ==
    /\ atStart' = [atStart EXCEPT ![t] = credits]
    /\ deducted' = [deducted EXCEPT ![t] = "none"]
    /\ IF profile[t] <= 0
       THEN /\ toast' = [toast EXCEPT ![t] = "Insufficient credits"]
            /\ pc' = [pc EXCEPT ![t] = "idle"]
            /\ log' = [log EXCEPT ![t] = calls]
       ELSE /\ toast' = [toast EXCEPT ![t] = "Searching"]
            /\ pc' = [pc EXCEPT ![t] = "getDoc"]
            /\ log' = [log EXCEPT ![t] = Append(calls, "ledger")]

\* analysis.missingInfo.length > 0; "throw" when missingInfo is undefined or null.
MissingLength(m) ==
    IF m.tag = "list" THEN (IF m.len > 0 THEN "some" ELSE "none")
    ELSE IF m.tag \in {"absent", "null"} THEN "throw"
    ELSE IF m.tag \in {"str", "s_title"} THEN "some"
    ELSE "none"

\* analyzeAndRefine: the intent analysis, then the refinement modal or, with
\* nothing missing (or the analysis failing), handleSearch.
AnalyzeAndRefine(t) ==
    /\ pc[t] = "idle"
    /\ \E analysis \in DashAnalyses :
          LET calls == IF analysis.providerCalls > 0 THEN <<"intent">> ELSE << >>
          IN  IF MissingLength(analysis.missingInfo) = "some"
              THEN /\ pc' = [pc EXCEPT ![t] = "modal"]
                   /\ log' = [log EXCEPT ![t] = calls]
                   /\ atStart' = [atStart EXCEPT ![t] = NotEntered]
                   /\ deducted' = [deducted EXCEPT ![t] = "none"]
                   /\ toast' = [toast EXCEPT ![t] = "none"]
              ELSE HandleSearch(t, calls)
    /\ UNCHANGED <<fnVars, runVars, purchases, credits, credits0, usage, granted, profile>>

\* The user completes the refinement modal: handleSearch(updatedRefinements).
ConfirmRefinements(t) ==
    /\ pc[t] = "modal"
    /\ HandleSearch(t, log[t])
    /\ UNCHANGED <<fnVars, runVars, purchases, credits, credits0, usage, granted, profile>>

\* The user closes the refinement modal.
CloseRefinements(t) ==
    /\ pc[t] = "modal"
    /\ pc' = [pc EXCEPT ![t] = "idle"]
    /\ UNCHANGED <<fnVars, runVars, purchases, credits, credits0, usage, granted, profile, atStart,
                   deducted, log, toast>>

\* deductCredits returned false: the toast of handleSearch, and its return.
DeductReturnsFalse(t) ==
    /\ deducted' = [deducted EXCEPT ![t] = "false"]
    /\ toast' = [toast EXCEPT ![t] = "Failed to process search"]
    /\ pc' = [pc EXCEPT ![t] = "idle"]

\* deductCredits: getDoc answers with the balance of that moment; no credits
\* left returns false.
GetDoc(t) ==
    /\ pc[t] = "getDoc"
    /\ IF credits <= 0
       THEN DeductReturnsFalse(t)
       ELSE /\ pc' = [pc EXCEPT ![t] = "updateDoc"]
            /\ UNCHANGED <<deducted, toast>>
    /\ UNCHANGED <<fnVars, runVars, purchases, credits, credits0, usage, granted, profile, atStart, log>>

\* deductCredits: updateDoc with increment(-1).
UpdateDoc(t) ==
    /\ pc[t] = "updateDoc"
    /\ credits' = credits - 1
    /\ pc' = [pc EXCEPT ![t] = "setDoc"]
    /\ UNCHANGED <<fnVars, runVars, purchases, credits0, usage, granted, profile, atStart, deducted,
                   log, toast>>

\* deductCredits: setDoc of the usage record, then return true.
SetDoc(t) ==
    /\ pc[t] = "setDoc"
    /\ usage' = usage + 1
    /\ granted' = granted + 1
    /\ deducted' = [deducted EXCEPT ![t] = "true"]
    /\ pc' = [pc EXCEPT ![t] = "searching"]
    /\ UNCHANGED <<fnVars, runVars, purchases, credits, credits0, profile, atStart, log, toast>>

\* deductCredits: a Firestore request throws; the catch returns false.
DeductThrows(t) ==
    /\ pc[t] \in {"getDoc", "updateDoc", "setDoc"}
    /\ DeductReturnsFalse(t)
    /\ UNCHANGED <<fnVars, runVars, purchases, credits, credits0, usage, granted, profile, atStart,
                   log>>

PipelineCalls(calls) == SelectSeq(calls, LAMBDA c : c \in {"search", "fetch"})

\* The search pipeline issues a search query or fetches a page.
PipelineCall(t) ==
    /\ pc[t] = "searching"
    /\ Len(PipelineCalls(log[t])) < MaxPipelineCalls
    /\ \E c \in {"search", "fetch"} :
          /\ c = "fetch" => PipelineCalls(log[t]) # << >>
          /\ log' = [log EXCEPT ![t] = Append(@, c)]
    /\ UNCHANGED <<fnVars, runVars, purchases, credits, credits0, usage, granted, pc, profile, atStart, deducted, toast>>

\* The pipeline returns its jobs: setJobs and the success toast.
SearchDone(t) ==
    /\ pc[t] = "searching"
    /\ toast' = [toast EXCEPT ![t] = "Found"]
    /\ pc' = [pc EXCEPT ![t] = "idle"]
    /\ UNCHANGED <<fnVars, runVars, purchases, credits, credits0, usage, granted, profile, atStart,
                   deducted, log>>

Next ==
    \E t \in Tabs :
        \/ ProfileSnapshot(t)
        \/ AnalyzeAndRefine(t) \/ ConfirmRefinements(t) \/ CloseRefinements(t)
        \/ GetDoc(t) \/ UpdateDoc(t) \/ SetDoc(t) \/ DeductThrows(t)
        \/ PipelineCall(t) \/ SearchDone(t)

Spec == Init /\ [][Next]_vars

\* C1 (as stated): under every interleaving of deductCredits calls the stored
\* balance never drops below zero, and no more calls return true than the
\* balance held before the calls.
C1_AtomicDeduct == credits >= 0 /\ granted <= credits0

\* C2 (as stated): a handleSearch that began with the ledger at zero has ended
\* (once it has returned) with the insufficient-credits message and without a
\* search query or page fetch.
C2_ZeroBalanceRejected ==
    \A t \in Tabs :
        (pc[t] = "idle" /\ atStart[t] = 0) =>
            (toast[t] = "Insufficient credits" /\ PipelineCalls(log[t]) = << >>)

LedgerCalls(t) == {i \in 1..Len(log[t]) : log[t][i] = "ledger"}
Entered(t) == atStart[t] # NotEntered
\* handleSearch returned at the test of the cached profile.
StoppedAtProfile(t) == Entered(t) /\ pc[t] = "idle" /\ deducted[t] = "none"

\* C3 (as stated): in a search invocation the ledger is called exactly once, and
\* before every other external call of the invocation, the intent analysis
\* included.
C3_LedgerOnceAndFirst ==
    \A t \in Tabs :
        Entered(t) => (Cardinality(LedgerCalls(t)) = 1 /\ log[t][1] = "ledger")

\* C3 (amended): handleSearch calls the ledger exactly once, unless the cached
\* profile shows no credits, and then not at all; every search query and page
\* fetch of the invocation comes after that call and after it returned true;
\* after false there is none.  The intent analysis of analyzeAndRefine, if it
\* reaches the provider, comes first, before the ledger call.
C3_LedgerBeforeSearch ==
    \A t \in Tabs :
        /\ Cardinality(LedgerCalls(t)) <= 1
        /\ Entered(t) =>
              IF StoppedAtProfile(t)
              THEN LedgerCalls(t) = {} /\ PipelineCalls(log[t]) = << >>
              ELSE Cardinality(LedgerCalls(t)) = 1
        /\ \A i \in 1..Len(log[t]) :
              /\ log[t][i] \in {"search", "fetch"} =>
                    (deducted[t] = "true" /\ \E j \in LedgerCalls(t) : j < i)
              /\ log[t][i] = "intent" => i = 1
        /\ deducted[t] = "false" => PipelineCalls(log[t]) = << >>

C3_Witness ==
    \E t \in Tabs :
        /\ log[t] = <<"intent", "ledger", "search", "fetch">>
        /\ deducted[t] = "true"
        /\ pc[t] = "idle"

(***************************************************************************)
(* Freshness and the date range of the refinements (SpecFresh).            *)
(***************************************************************************)

\* The text is exactly "N days ago".
SaysDaysAgo(text) == Len(text) = 3 /\ text[1] \in NumToks /\ text[2] = "days" /\ text[3] = "ago"

\* C11 (as stated): a job whose text says "N days ago" is accepted if and only
\* if N is at most the date range of the run's refinements.
C11_DaysWithinWindow ==
    (phase = "done" /\ SaysDaysAgo(arg.text)) =>
        (ret.jobs # << >> <=> NumVal(arg.text[1]) <= arg.dateRange)

\* The text holds none of: today, yesterday, N hours/days/weeks/months ago.
NoDatePhrase(text) ==
    /\ ~HasWord(text, "today") /\ ~HasWord(text, "yesterday")
    /\ \A unit \in {"hours", "days", "weeks", "months"} : AgoMatches(text, unit) = {}

\* C12 (as stated): a job whose text holds no date phrase is accepted and dated
\* now, whatever other words the text holds.
C12_NoDateAccepted ==
    (phase = "done" /\ NoDatePhrase(arg.text)) =>
        (Len(ret.jobs) = 1 /\ ret.jobs[1].postedDate = Now)

(***************************************************************************)
(* SpecFinal: the end of searchWithRefinements (final date filter,         *)
(* removeDuplicateJobs, filterQualityJobs, sort, slice) on the jobs a run  *)
(* may have collected.                                                     *)
(***************************************************************************)
MaxJobs == 3

\* A provider response that names no requirements and no responsibilities.
NoListsText ==
    <<"{", "title:", "s_title", ",", "company:", "s_company", ",", "location:", "s_austin",
      ",", "description:", "s_desc", "}">>
FinalProviders == RunProviders \cup {[kind |-> "text", text |-> NoListsText]}

FinalPages ==
    {ScrapedJob(t, c, "Austin, TX", Desc(w, RawDescChars, <<"requirements", "item">>), "", "") :
        t \in {"Backend Engineer", "Data Engineer", "Dev"}, c \in {"Acme Co", "Globex", ""},
        w \in {<<"today">>, <<"2", "days", "ago">>}}

\* The jobs processJobResult returns for the pages and providers above.
CollectedPool ==
    UNION {LET result == SearchResult(1, FreshSnippet)
               r == processJobResult(result, refinements,
                                     Env(result, FetchSingle(page), << >>, provider))
           IN  {r.jobs[i] : i \in 1..Len(r.jobs)} :
           page \in FinalPages, provider \in FinalProviders, refinements \in RunRefinements}

\* Every collected job has an id (generateJobId) and a source URL of its own.
Collected(jobs) == [i \in 1..Len(jobs) |-> [jobs[i] EXCEPT !.id = i, !.sourceUrl = i]]

InitFinal ==
    /\ arg \in {[jobs |-> Collected(jobs)] : jobs \in SeqsUpTo(CollectedPool, MaxJobs)}
    /\ ret = NoValue
    /\ phase = "call"
    /\ RunIdle /\ CredIdle

CallFinalJobs ==
    /\ phase = "call"
    /\ ret' = FinalJobs(arg.jobs)
    /\ phase' = "done"
    /\ UNCHANGED <<arg, runVars, credVars>>

NextFinal == CallFinalJobs

SpecFinal == InitFinal /\ [][NextFinal]_vars

Returned(job) == \E k \in 1..Len(ret.items) : ret.items[k] = job
SameTitleCompany(a, b) == a.title = b.title /\ a.company = b.company

\* The quality predicate of the Quality & Dedup Filter, as the specification
\* words it.
MeetsQualityPredicate(job) ==
    /\ job.title \notin {"", Undefined, "<null>"} /\ Len(job.title) >= 5
    /\ job.title # "Job Opening"
    /\ job.company \notin {"", Undefined, "<null>"} /\ Len(job.company) >= 2
    /\ job.company # "Company"
    /\ job.description.tag = "text" /\ job.description.chars >= 100
    /\ (Len(job.requirements) > 0 \/ Len(job.responsibilities) > 0)

\* C13 (for a later listing that meets the quality predicate): of two listings
\* with the same title and company, the first encountered is returned and the
\* later one is not.
C13_FirstDuplicateRetained ==
    phase = "done" =>
        \A i, j \in 1..Len(arg.jobs) :
            (/\ i < j
             /\ SameTitleCompany(arg.jobs[i], arg.jobs[j])
             /\ \A k \in 1..(i - 1) : ~SameTitleCompany(arg.jobs[k], arg.jobs[i])
             /\ MeetsQualityPredicate(arg.jobs[j]))
            => (Returned(arg.jobs[i]) /\ ~Returned(arg.jobs[j]))

\* C16: the returned list is sorted, the newer job first and, of two jobs
\* posted at the same instant, the one with the higher match score first.
C16_SortedByDateThenScore ==
    phase = "done" =>
        \A i \in 1..(Len(ret.items) - 1) :
            LET a == ret.items[i]
                b == ret.items[i + 1]
            IN  /\ a.postedDate.hoursAgo <= b.postedDate.hoursAgo
                /\ (a.postedDate.hoursAgo = b.postedDate.hoursAgo =>
                        a.matchScore >= b.matchScore)

\* Three jobs were collected oldest first; two are returned, newest first.
C16_Witness ==
    /\ phase = "done"
    /\ Len(arg.jobs) = 3
    /\ Len(ret.items) = 2
    /\ ret.items[1].id > ret.items[2].id
    /\ ret.items[1].postedDate.hoursAgo < ret.items[2].postedDate.hoursAgo

\* C17: every returned job satisfies the whole quality predicate.
C17_ReturnedJobsMeetQuality ==
    phase = "done" => \A k \in 1..Len(ret.items) : MeetsQualityPredicate(ret.items[k])

\* A job that removeDuplicateJobs keeps and the predicate rejects was collected
\* next to one that is returned.
C17_Witness ==
    /\ phase = "done"
    /\ ret.items # << >>
    /\ \E i \in 1..Len(arg.jobs) :
          /\ ~DedupSkips(arg.jobs[i])
          /\ ~MeetsQualityPredicate(arg.jobs[i])
          /\ \A k \in 1..(i - 1) : ~SameTitleCompany(arg.jobs[k], arg.jobs[i])

(***************************************************************************)
(* SpecScore: calculateMatchScore on a job and refinements, and on the     *)
(* same refinements with one more must-have skill; generateMatchReasons on *)
(* the same job and refinements.                                           *)
(***************************************************************************)
MaxSkills == 2

ScoreSkills == {"Python", "go", "Backend", "rust"}

ScoreJobs ==
    [title : {"Backend Engineer", "Data Engineer"},
     description : {Desc(<<"Python">>, ProviderDescChars, << >>),
                    Desc(<<"Chicago">>, ProviderDescChars, << >>)},
     location : {"Austin, TX", "Remote", Undefined},
     workplaceType : {"Remote", "Onsite"},
     salary : {"$120,000", "$50 per hour", "Competitive", "", Undefined}]

ScoreRefinements ==
    {Refinements(city, remote, salaryMin, skills, 3) :
        city \in {"", "Austin"}, remote \in BOOLEAN, salaryMin \in {0, 100000},
        skills \in SeqsUpTo(ScoreSkills, MaxSkills)}

WithSkill(refinements, skill) ==
    [refinements EXCEPT !.mustHaveSkills = Append(@, skill)]

InitScore ==
    /\ arg \in [job : ScoreJobs, refinements : ScoreRefinements, skill : ScoreSkills]
    /\ ret = NoValue
    /\ phase = "call"
    /\ RunIdle /\ CredIdle

CallCalculateMatchScore ==
    /\ phase = "call"
    /\ ret' = IF ScoringThrows(arg.job, arg.refinements) THEN Thrown
              ELSE [kind |-> "scores",
                    score |-> calculateMatchScore(arg.job, arg.refinements),
                    more |-> calculateMatchScore(arg.job,
                                                 WithSkill(arg.refinements, arg.skill)),
                    reasons |-> generateMatchReasons(arg.job, arg.refinements)]
    /\ phase' = "done"
    /\ UNCHANGED <<arg, runVars, credVars>>

NextScore == CallCalculateMatchScore

SpecScore == InitScore /\ [][NextScore]_vars

SkillMatchesJob == TextIncludesSkill(arg.job.title, arg.job.description, arg.skill)

\* C14: a score that calculateMatchScore returns lies in 70..95, and with one
\* more must-have skill that matches the job's title or description the score
\* is not lower.
C14_ScoreBoundedAndMonotone ==
    (phase = "done" /\ ret.kind = "scores") =>
        /\ 70 <= ret.score /\ ret.score <= 95
        /\ 70 <= ret.more /\ ret.more <= 95
        /\ SkillMatchesJob => ret.more >= ret.score

\* Every bonus fires and the sum is cut to 95; the further skill matches.
C14_Witness ==
    /\ phase = "done"
    /\ ret.kind = "scores"
    /\ SkillMatchesJob
    /\ LocationMatches(arg.job, arg.refinements)
    /\ RemoteMatches(arg.job, arg.refinements)
    /\ SalaryMatches(arg.job, arg.refinements)
    /\ Cardinality(MatchedSkills(arg.job, arg.refinements)) = 2
    /\ ret.score = 95
    /\ ret.more = 95

(* Scoring of the jobs a run returns (SpecRun). *)
DescriptionHasSkill(job, refinements) ==
    \E k \in 1..Len(refinements.mustHaveSkills) :
        \E i \in 1..Len(job.description.words) :
            job.description.words[i] \in SkillWords(refinements.mustHaveSkills[k])

\* C15 (its consequence for skills): a returned job whose description contains
\* a must-have skill of the run's refinements has a matchScore of at least 72
\* and a skill-match reason.
C15_SkillJobsScored ==
    phase = "done" =>
        \A k \in 1..Len(ret.items) :
            DescriptionHasSkill(ret.items[k], arg.refinements) =>
                /\ ret.items[k].matchScore >= 72
                /\ \E i \in 1..Len(ret.items[k].matchReasons) :
                      ret.items[k].matchReasons[i] = "Matches key skills"

(* The caps of a run and the set of visited URLs (SpecCap, SpecRun). *)
IsPrefix(s, t) == Len(s) <= Len(t) /\ SubSeq(t, 1, Len(s)) = s

\* C18 (the cap being tested when a result has been resolved): once allJobs
\* holds 25 jobs no query is issued, no result is resolved and no page is
\* fetched; the list page under resolution when the 25th job is found still has
\* its remaining children fetched, so that allJobs holds at most 27 jobs; no
\* collected job is dropped before the final filters.
C18_CapStopsRun ==
    /\ [](Len(allJobs) >= JobCap => phase \in {"final", "done"})
    /\ [](Len(allJobs) <= JobCap + ChildFanOut - 1)
    /\ [][Len(allJobs) >= JobCap =>
            UNCHANGED <<searchIdx, failedSearches, resolved, fetched, allJobs>>]_vars
    /\ [][IsPrefix(allJobs, allJobs')]_vars
    /\ [](phase = "done" => ret = FinalJobs(allJobs))

\* The cap is hit in the third of five queries, by the children of a list page.
C18_Witness ==
    /\ phase = "done"
    /\ Len(allJobs) > JobCap
    /\ searchIdx = 3
    /\ Cardinality(DOMAIN resolved) = 9

\* C18 (as stated): no page is fetched once 25 jobs were found, the remaining
\* children of a list page included; a fetch yielding one job at most, a run
\* never holds more than 25 jobs.
C18_NoFetchPastCap == Len(allJobs) <= JobCap

FetchedUrls == {fetched[i] : i \in 1..Len(fetched)}

\* C19 (the cap on jobs, 25, taken as the cap on URLs): the distinct URLs
\* handed to fetchJobPageContent in a run never exceed the cap.
C19_UrlCapEnforced == Cardinality(FetchedUrls) <= JobCap

\* C20: no link is handed to processJobResult twice, and processedUrls only
\* grows.
C20_LinksResolvedOnce ==
    /\ [](\A link \in DOMAIN resolved : resolved[link] = 1 /\ link \in processedUrls)
    /\ [][processedUrls \subseteq processedUrls']_vars

\* A link that came back in a later query was skipped.
C20_Witness ==
    /\ phase = "results"
    /\ searchIdx > 1
    /\ Head(searchResults).link \in processedUrls
    /\ Head(searchResults).link \in DOMAIN resolved

(***************************************************************************)
(* SpecResolve: processJobResult on a search result whose page is a list   *)
(* page, for every answer the children's pages may give.                   *)
(***************************************************************************)
MaxChildren == 4

\* The jobs a list page names: the job at position k has the url 10 + k or
\* no url (0).
ChildUrlLists ==
    UNION {{urls \in [1..n -> 0..(10 + n)] : \A k \in 1..n : urls[k] \in {0, 10 + k}} :
           n \in 0..MaxChildren}

StaleJob ==
    ScrapedJob("Data Engineer", "Acme Co", "Austin, TX",
               Desc(<<"3", "weeks", "ago">>, RawDescChars, << >>), "", "")

\* What the fetch of a child may answer: a job, an old job, a list page of its
\* own (urls 7 and 8), an error, nothing.
ChildAnswers ==
    {FetchSingle(PageJob(2)), FetchSingle(StaleJob), FetchList(<<7, 8>>), FetchError,
     FetchNull}

ResolveEnvs ==
    {[page |-> FetchList(urls), childPages |-> childPages,
      providers |-> [k \in 1..MaxChildren |-> ProviderThrows]] :
        urls \in ChildUrlLists,
        childPages \in {c \in [1..MaxChildren -> ChildAnswers] :
                           \A k \in (ChildFanOut + 1)..MaxChildren : c[k] = FetchNull}}

InitResolve ==
    /\ arg \in [result : {SearchResult(1, FreshSnippet)}, env : ResolveEnvs]
    /\ ret = NoValue
    /\ phase = "call"
    /\ RunIdle /\ CredIdle

CallResolve ==
    /\ phase = "call"
    /\ LET r == processJobResult(arg.result, Refinements("", FALSE, 0, << >>, 4), arg.env)
       IN  ret' = [kind |-> "resolved", jobs |-> r.jobs, fetched |-> r.fetched]
    /\ phase' = "done"
    /\ UNCHANGED <<arg, runVars, credVars>>

NextResolve == CallResolve

SpecResolve == InitResolve /\ [][NextResolve]_vars

\* The children of the list page that have a url and whose fetch answers with
\* a single job, among the first three.
JobChildren ==
    {k \in 1..Len(arg.env.page.jobs) :
        /\ k <= 3
        /\ arg.env.page.jobs[k] # 0
        /\ arg.env.childPages[k].type = "single"
        /\ ~arg.env.childPages[k].error
        /\ arg.env.childPages[k].job # << >>}

\* C21: resolving one search result fetches its page and at most 3 children,
\* all of them named by the page itself; a child whose fetch answers with a
\* list, an error or nothing gives no job and none of its own children is
\* fetched; at most 3 jobs come back.
C21_DepthTwoBoundedFanOut ==
    phase = "done" =>
        /\ Len(ret.fetched) <= 1 + 3
        /\ Len(ret.jobs) <= 3
        /\ ret.fetched[1] = arg.result.link
        /\ \A i \in 2..Len(ret.fetched) :
              \E k \in 1..Len(arg.env.page.jobs) : ret.fetched[i] = arg.env.page.jobs[k]
        /\ Len(ret.jobs) <= Cardinality(JobChildren)

\* Four children are named; the first answers with a list page, the second
\* with a job, the third with an error: four fetches, one job.
C21_Witness ==
    /\ phase = "done"
    /\ Len(arg.env.page.jobs) = 4
    /\ \A k \in 1..4 : arg.env.page.jobs[k] # 0
    /\ arg.env.childPages[1].type = "list"
    /\ arg.env.childPages[2] = FetchSingle(PageJob(2))
    /\ arg.env.childPages[3] = FetchError
    /\ Len(ret.fetched) = 4
    /\ Len(ret.jobs) = 1

(* The two signatures of removeDuplicateJobs (SpecFinal). *)
SameTitleLocation(a, b) ==
    /\ LowerTrim(a.title) = LowerTrim(b.title)
    /\ LowerTrim(a.location) = LowerTrim(b.location)

\* C22 (its consequence for the returned list): two jobs with the same title
\* and the same location are never both returned, whatever their companies.
C22_SameTitleLocationCollapsed ==
    phase = "done" =>
        \A i, j \in 1..Len(ret.items) :
            (i # j) => ~SameTitleLocation(ret.items[i], ret.items[j])

(* The reasons and the bonuses (SpecScore). *)
HasReason(reason) == \E i \in 1..Len(ret.reasons) : ret.reasons[i] = reason

ReasonOrder ==
    <<"Location match", "Remote opportunity", "Competitive salary", "Matches key skills">>

\* C23 (as stated): generateMatchReasons returns at most 3 reasons, in the
\* order location, remote, salary, skills, and a reason is returned only if its
\* bonus fired in calculateMatchScore for the same job and refinements.
C23_ReasonsFollowBonuses ==
    (phase = "done" /\ ret.kind = "scores") =>
        /\ Len(ret.reasons) <= 3
        /\ \A i, j \in 1..Len(ret.reasons) :
              i < j => \E a, b \in 1..4 :
                          a < b /\ ret.reasons[i] = ReasonOrder[a] /\ ret.reasons[j] = ReasonOrder[b]
        /\ HasReason("Location match") => LocationMatches(arg.job, arg.refinements)
        /\ HasReason("Remote opportunity") => RemoteMatches(arg.job, arg.refinements)
        /\ HasReason("Competitive salary") => SalaryMatches(arg.job, arg.refinements)
        /\ HasReason("Matches key skills") => MatchedSkills(arg.job, arg.refinements) # {}

(* The short-circuit of analyzeSearchIntent (SpecIntent). *)
CriticalMissing(input) == ~hasJobTitle(input) \/ ~hasLocation(input)

\* C24 (as stated): for a free-text prompt the provider is called exactly when
\* neither the job title nor the location is flagged missing; when one of them
\* is missing the generic response comes back, with a non-empty missingInfo
\* and no provider call.
C24_ShortCircuitOnCriticalOnly ==
    (phase = "done" /\ ~arg.isResume) =>
        /\ ret.providerCalls > 0 <=> ~CriticalMissing(arg.input)
        /\ CriticalMissing(arg.input) =>
              /\ ret.refinements = "R_empty"
              /\ ret.missingInfo.tag = "list" /\ ret.missingInfo.len > 0
              /\ ret.providerCalls = 0

(* The two deterministic fallbacks of structureJobWithGemini (SpecStructure). *)
FallbackFields(listing) ==
    <<listing.title, listing.company, listing.location, listing.description, listing.salary,
      listing.employmentType, listing.workplaceType, listing.requirements,
      listing.responsibilities>>

\* C25 (as stated): a listing built by the deterministic fallback has the same
\* title, company, location, description, salary, employmentType,
\* workplaceType, requirements and responsibilities whichever failure led to
\* it (a response that does not parse, a call that throws), and its
\* employmentType is that of the raw record unless the record has none.
C25_FallbacksAgree ==
    (phase = "done" /\ ret # NoListing /\ FellBackToRaw) =>
        /\ FallbackFields(ret) = FallbackFields(ParseFailureListing(arg.raw, arg.url))
        /\ FallbackFields(ret) = FallbackFields(CatchListing(arg.raw, arg.url))
        /\ ret.employmentType =
              (IF arg.raw.employmentType = "" THEN "Full-time" ELSE arg.raw.employmentType)

(* The snippet test of the search loop and the freshness test (SpecFresh). *)

\* C30 (as stated): a snippet that the test of the search loop skips is also
\* rejected when processJobResult applies extractJobDate and its staleness
\* test to it.
C30_PreFilterWithinClassifier ==
    (phase = "done" /\ arg.where = "snippet" /\ SnippetSkips(arg.text)) =>
        ret.jobs = << >>

(* deductCredits and the balance (Spec). *)
InDeductCredits(t) == pc[t] \in {"getDoc", "updateDoc", "setDoc"}

\* C28 (as stated, summed over the calls): a call of deductCredits that returns
\* false leaves the balance as it was and a call that returns true lowers it by
\* exactly 1; so when no call is under way the balance is the first balance
\* less the number of calls that returned true.
C28_FailureLeavesLedger ==
    (\A t \in Tabs : ~InDeductCredits(t)) => credits = credits0 - granted

(***************************************************************************)
(* The page-fetching service (backend/functions/src/index.ts):             *)
(* scrapeJobPage, its three strategies and extractJobData for a domain     *)
(* that has no scraper of its own.                                         *)
(***************************************************************************)

\* The JSON-LD script of a page: none, text that does not parse, or an object
\* with its @type and the fields read from it (Undefined where absent).
NoJsonLd == [kind |-> "none"]
BadJsonLd == [kind |-> "invalid"]
JsonLd(type, job) == [kind |-> "object", type |-> type, job |-> job]

\* A page: the texts its selectors give (dom, "" where none matches), its first
\* JSON-LD script, the urls of its job links, and whether a link is no URL
\* (new URL(href, baseUrl) throws).
Page(dom, jsonLd, links, badLink) ==
    [dom |-> dom, jsonLd |-> jsonLd, links |-> links, badLink |-> badLink]

\* job.x = job.x || data.x
OrDesc(description, default) == IF DescFalsy(description) THEN default ELSE description

\* extractJobData($, url) for a url of no known job site; Thrown when
\* findJobLinks throws.
extractJobData(page) ==
    LET dom == page.dom
        ld == page.jsonLd
        job == IF ld.kind = "object" /\ ld.type = "JobPosting"
               THEN ScrapedJob(Or(dom.title, ld.job.title), Or(dom.company, ld.job.company),
                               Or(dom.location, ld.job.location),
                               OrDesc(dom.description, ld.job.description),
                               Or(dom.salary, ld.job.salary), dom.employmentType)
               ELSE dom
    IN  IF page.badLink THEN Thrown
        ELSE IF Len(page.links) > 1 /\ (Falsy(job.title) \/ Falsy(job.company))
        THEN FetchList(page.links)
        ELSE FetchSingle(job)

\* What an HTTP request may give: it throws (network error, timeout, 5xx), it
\* is answered with 403 or 429, or it is answered with a page.
HttpThrows == [kind |-> "throw"]
HttpBlocked == [kind |-> "blocked"]
HttpPage(page) == [kind |-> "page", page |-> page]

IsError(response) == response.error

\* scrapeWithAxios: validateStatus lets a 403 or 429 through, which gives the
\* value 'Blocked'; an exception gives an error value.
scrapeWithAxios(answer) ==
    IF answer.kind = "throw" \/ answer.kind = "blocked" THEN FetchError
    ELSE IF extractJobData(answer.page) = Thrown THEN FetchError
    ELSE extractJobData(answer.page)

NumUserAgents == 3

RECURSIVE UserAgentsFrom(_, _)
\* The loop over userAgents from the i-th on: a request (or extraction) that
\* throws goes on to the next user agent; a 403 makes axios throw.
UserAgentsFrom(answers, i) ==
    IF i > NumUserAgents THEN FetchError
    ELSE IF answers[i].kind = "page" /\ extractJobData(answers[i].page) # Thrown
    THEN extractJobData(answers[i].page)
    ELSE UserAgentsFrom(answers, i + 1)

scrapeWithDifferentHeaders(answers) == UserAgentsFrom(answers, 1)

scrapeWithProxy(answer) ==
    IF answer.kind = "page" /\ extractJobData(answer.page) # Thrown
    THEN extractJobData(answer.page)
    ELSE FetchError

Scraped(attempts, response) ==
    [kind |-> "scraped", attempts |-> attempts, response |-> response]

MutScrapeJobPageTriesAll(env) ==
    IF IsError(scrapeWithProxy(env.proxy))
    THEN IF IsError(scrapeWithDifferentHeaders(env.agents))
         THEN Scraped(<<"proxy", "agents", "direct">>, scrapeWithAxios(env.direct))
         ELSE Scraped(<<"proxy", "agents">>, scrapeWithDifferentHeaders(env.agents))
    ELSE Scraped(<<"proxy">>, scrapeWithProxy(env.proxy))

\* scrapeJobPage({url}); env gives the answers to the requests of each
\* strategy.  The value holds the strategies attempted, in order, and the
\* response.  (scrapedData is never null: the || of the return never applies.)
scrapeJobPage(env) ==
    IF IsError(scrapeWithAxios(env.direct))
    THEN IF IsError(scrapeWithDifferentHeaders(env.agents))
         THEN Scraped(<<"direct", "agents", "proxy">>, scrapeWithProxy(env.proxy))
         ELSE Scraped(<<"direct", "agents">>, scrapeWithDifferentHeaders(env.agents))
    ELSE Scraped(<<"direct">>, scrapeWithAxios(env.direct))

(***************************************************************************)
(* SpecScrape: scrapeJobPage for every answer the requests may get.        *)
(***************************************************************************)
DomJob ==
    ScrapedJob("Data Engineer", "Globex", "Remote", Desc(<<"today">>, RawDescChars, << >>),
               "$50 per hour", "Contract")
DomTitleOnly == ScrapedJob("Data Engineer", "", "", EmptyDesc, "", "")
JsonLdJob ==
    ScrapedJob("Backend Engineer", "Acme Co", "Austin, TX",
               Desc(<<"Python">>, ProviderDescChars, << >>), "$120,000", Undefined)
JsonLdTitleOnly ==
    ScrapedJob("Backend Engineer", Undefined, Undefined, UndefinedDesc, Undefined, Undefined)

ScrapePages ==
    {Page(dom, jsonLd, links, badLink) :
        dom \in {EmptyJob, DomJob, DomTitleOnly},
        jsonLd \in {NoJsonLd, BadJsonLd, JsonLd("JobPosting", JsonLdJob),
                    JsonLd("JobPosting", JsonLdTitleOnly), JsonLd("Organization", JsonLdJob)},
        links \in {<< >>, <<11, 12>>},
        badLink \in BOOLEAN}

PlainPage == Page(DomJob, NoJsonLd, << >>, FALSE)
RetryAnswers == {HttpThrows, HttpBlocked, HttpPage(PlainPage),
                 HttpPage(Page(DomJob, JsonLd("JobPosting", JsonLdJob), << >>, FALSE))}

InitScrape ==
    /\ arg \in [direct : {HttpThrows, HttpBlocked} \cup {HttpPage(page) : page \in ScrapePages},
                agents : [1..NumUserAgents -> RetryAnswers],
                proxy : RetryAnswers]
    /\ ret = NoValue
    /\ phase = "call"
    /\ RunIdle /\ CredIdle

CallScrapeJobPage ==
    /\ phase = "call"
    /\ ret' = scrapeJobPage(arg)
    /\ phase' = "done"
    /\ UNCHANGED <<arg, runVars, credVars>>

NextScrape == CallScrapeJobPage

SpecScrape == InitScrape /\ [][NextScrape]_vars

StrategyOrder == <<"direct", "agents", "proxy">>

\* What a strategy returns for the answers of the call.
StrategyResult(strategy) ==
    CASE strategy = "direct" -> scrapeWithAxios(arg.direct)
      [] strategy = "agents" -> scrapeWithDifferentHeaders(arg.agents)
      [] strategy = "proxy" -> scrapeWithProxy(arg.proxy)

\* C26: the strategies are attempted in the order direct fetch, alternate user
\* agents, proxy relay; a strategy is attempted only if every earlier one
\* returned an error; the response is the result of the first strategy that
\* returned no error; when all three return an error the response is a value
\* {type: 'single', error}, no exception.
C26_StrategiesInOrder ==
    phase = "done" =>
        /\ ret.kind = "scraped"
        /\ Len(ret.attempts) \in 1..3
        /\ \A i \in 1..Len(ret.attempts) : ret.attempts[i] = StrategyOrder[i]
        /\ \A i \in 1..(Len(ret.attempts) - 1) : IsError(StrategyResult(ret.attempts[i]))
        /\ ret.response = StrategyResult(ret.attempts[Len(ret.attempts)])
        /\ Len(ret.attempts) < 3 => ~IsError(ret.response)
        /\ (\A i \in 1..3 : IsError(StrategyResult(StrategyOrder[i]))) =>
              (ret.response.type = "single" /\ ret.response.error)

\* The direct fetch is blocked, the first two user agents fail, the third gets
\* the page: the proxy is not attempted.
C26_Witness ==
    /\ phase = "done"
    /\ arg.direct = HttpBlocked
    /\ arg.agents[1] = HttpThrows /\ arg.agents[2] = HttpBlocked
    /\ arg.agents[3] = HttpPage(PlainPage)
    /\ arg.proxy = HttpPage(PlainPage)
    /\ ret.attempts = <<"direct", "agents">>
    /\ ret.response = FetchSingle(DomJob)

\* The page that the strategy returning the response was answered with.
ServedPage ==
    CASE Len(ret.attempts) = 1 -> arg.direct.page
      [] Len(ret.attempts) = 2 ->
            arg.agents[CHOOSE i \in 1..NumUserAgents :
                          /\ arg.agents[i].kind = "page"
                          /\ \A k \in 1..(i - 1) : arg.agents[k].kind # "page"].page
      [] Len(ret.attempts) = 3 -> arg.proxy.page

\* C27 (as stated): when the page has JobPosting JSON-LD and DOM text for the
\* title (the company, the location, the salary, the description), the record
\* returned holds the JSON-LD value.
C27_JsonLdPreferred ==
    (/\ phase = "done" /\ ~IsError(ret.response) /\ ret.response.type = "single"
     /\ ServedPage.jsonLd.kind = "object" /\ ServedPage.jsonLd.type = "JobPosting") =>
        LET job == ret.response.job[1]
            dom == ServedPage.dom
            ld == ServedPage.jsonLd.job
        IN  /\ (~Falsy(dom.title) /\ ~Falsy(ld.title)) => job.title = ld.title
            /\ (~Falsy(dom.company) /\ ~Falsy(ld.company)) => job.company = ld.company
            /\ (~Falsy(dom.location) /\ ~Falsy(ld.location)) => job.location = ld.location
            /\ (~Falsy(dom.salary) /\ ~Falsy(ld.salary)) => job.salary = ld.salary
            /\ (~DescFalsy(dom.description) /\ ~DescFalsy(ld.description)) =>
                  job.description = ld.description

\* ---------------------------------------------------------------------------
\* Stripe: crediting a paid checkout session.
\* The webhook route (checkout.session.completed) and the verify-payment route
\* the dashboard posts to both write users/{uid}.credits and the purchases
\* collection.  Every Firestore request is a step of its own: the routes use
\* no transaction.
\* ---------------------------------------------------------------------------

\* session.metadata.credits of the paid session.
SessionCredits == 10

\* Deliveries of checkout.session.completed for the session (Stripe redelivers)
\* and calls of verify-payment for it (the dashboard's effect runs per mount).
MaxDeliveries == 2
MaxVerifies == 2

Webhooks == {<<"webhook", i>> : i \in 1..MaxDeliveries}
Verifies == {<<"verify", i>> : i \in 1..MaxVerifies}
Handlers == Webhooks \cup Verifies

InitPay ==
    /\ credits0 \in 0..MaxCredits
    /\ credits = credits0
    /\ purchases = 0
    /\ pc = [h \in Handlers |-> IF h \in Webhooks THEN "update" ELSE "query"]
    /\ usage = 0 /\ granted = 0
    /\ profile = << >> /\ atStart = << >> /\ deducted = << >>
    /\ log = << >> /\ toast = << >>
    /\ arg = NoValue /\ ret = NoValue /\ phase = "none"
    /\ RunIdle

payUnchanged == <<fnVars, runVars, credits0, usage, granted, profile, atStart, deducted,
                  log, toast>>

\* webhook: userRef.update({credits: FieldValue.increment(credits)}).
WebhookUpdate(h) ==
    /\ h \in Webhooks /\ pc[h] = "update"
    /\ credits' = credits + SessionCredits
    /\ pc' = [pc EXCEPT ![h] = "add"]
    /\ UNCHANGED <<payUnchanged, purchases>>

\* webhook: purchases.add({stripeSessionId, status: 'completed'}).
WebhookAddPurchase(h) ==
    /\ h \in Webhooks /\ pc[h] = "add"
    /\ purchases' = purchases + 1
    /\ pc' = [pc EXCEPT ![h] = "received"]
    /\ UNCHANGED <<payUnchanged, credits>>

\* webhook: a Firestore request throws; the catch logs and the route still
\* answers {received: true}.
WebhookCatch(h) ==
    /\ h \in Webhooks /\ pc[h] \in {"update", "add"}
    /\ pc' = [pc EXCEPT ![h] = "received"]
    /\ UNCHANGED <<payUnchanged, credits, purchases>>

\* verify-payment: getDocs of the purchases with this stripeSessionId, and the
\* test existingPurchases.empty.
VerifyGetDocs(h) ==
    /\ h \in Verifies /\ pc[h] = "query"
    /\ pc' = [pc EXCEPT ![h] = IF purchases = 0 THEN "update" ELSE "already processed"]
    /\ UNCHANGED <<payUnchanged, credits, purchases>>

\* verify-payment: updateDoc(userRef, {credits: increment(credits)}).
VerifyUpdateDoc(h) ==
    /\ h \in Verifies /\ pc[h] = "update"
    /\ credits' = credits + SessionCredits
    /\ pc' = [pc EXCEPT ![h] = "add"]
    /\ UNCHANGED <<payUnchanged, purchases>>

\* verify-payment: addDoc(purchases, {stripeSessionId, status: 'completed'}).
VerifyAddDoc(h) ==
    /\ h \in Verifies /\ pc[h] = "add"
    /\ purchases' = purchases + 1
    /\ pc' = [pc EXCEPT ![h] = "credits added"]
    /\ UNCHANGED <<payUnchanged, credits>>

\* verify-payment: a request throws; the catch answers status 500.
VerifyCatch(h) ==
    /\ h \in Verifies /\ pc[h] \in {"query", "update", "add"}
    /\ pc' = [pc EXCEPT ![h] = "error"]
    /\ UNCHANGED <<payUnchanged, credits, purchases>>

NextPay ==
    \E h \in Handlers :
        \/ WebhookUpdate(h)
        \/ WebhookAddPurchase(h)
        \/ WebhookCatch(h)
        \/ VerifyGetDocs(h)
        \/ VerifyUpdateDoc(h)
        \/ VerifyAddDoc(h)
        \/ VerifyCatch(h)

SpecPay == InitPay /\ [][NextPay]_vars

\* C29: a paid checkout session credits the balance at most once, and leaves at
\* most one 'completed' purchase document, whatever the interleaving and
\* repetition of the webhook handler and the verify-payment handler.
C29_CreditedAtMostOnce ==
    /\ credits <= credits0 + SessionCredits
    /\ purchases <= 1

====
